---- MODULE Spec2Model ----
(***************************************************************************)
(* Model of the OmniCode front end: the Tablet parser (token list ->        *)
(* ScrollTree) and the Bearer operand resolver (instruction resolution     *)
(* record).  Four specifications share the variables: ParserSpec drives    *)
(* the parser over bounded token lists, ResolverSpec drives the resolver   *)
(* operations over one resolution record, ScrollSpec drives one Bearer and *)
(* the resolution records of two instructions of a scroll, WalkerSpec      *)
(* drives the parser's public sub-parsers from the cursor of a parser.     *)
(***************************************************************************)
EXTENDS Integers, Sequences, FiniteSets, TLC

VARIABLES tokens, position, nodes, pc, iterations, lost, lastAdvance,
          instruction, tier_order, ops, lastOp, sink,
          records, history, bearer,
          out, calls,
          crate, tokenizer, stream, loops, token_stream

vars == <<tokens, position, nodes, pc, iterations, lost, lastAdvance,
          instruction, tier_order, ops, lastOp, sink,
          records, history, bearer,
          out, calls,
          crate, tokenizer, stream, loops, token_stream>>

parserVars == <<tokens, position, nodes, pc, iterations, lost, lastAdvance>>

resolverVars == <<instruction, tier_order, ops, lastOp, sink>>

scrollVars == <<records, history, bearer>>

walkerVars == <<out, calls>>

tokenizerVars == <<crate, tokenizer, stream, loops, token_stream>>

(***************************************************************************)
(* Bounds                                                                  *)
(***************************************************************************)
MaxLen == 4

MaxOps == 3

MaxScrollOps == 3

MaxWalkLen == 4

MaxWalks == 2

MaxSourceLen == 3

MaxIterations == 6

(***************************************************************************)
(* Tokens                                                                  *)
(***************************************************************************)
Token(t, v) == [token_type |-> t, value |-> v]

\* Keys of get_instruction_registry() that the token alphabet uses.
RegistryKeys == {"wait", "go", "walk", "speak", "hear", "break", "then",
                 "else", "if", "bless", "curse", "store", "recall", "let",
                 "end"}

TokenAlphabet ==
    { Token("Instruction", "let"),
      Token("Instruction", "invoke"),
      Token("Literal", "5"),
      Token("Identifier", "x"),
      Token("Operator", "="),
      Token("Operator", "+"),
      Token("GroupMarker", "("),
      Token("GroupMarker", ")"),
      Token("GroupMarker", "{"),
      Token("GroupMarker", "}"),
      Token("Punctuation", ","),
      Token("Metadata", "//!m"),
      Token("Comment", "#c") }

RECURSIVE SeqsUpTo(_)
SeqsUpTo(n) ==
    IF n = 0 THEN { <<>> }
    ELSE LET shorter == SeqsUpTo(n - 1)
         IN  shorter \cup { Append(s, t) : s \in { q \in shorter : Len(q) = n - 1 },
                                            t \in TokenAlphabet }

(***************************************************************************)
(* ScrollNode                                                              *)
(***************************************************************************)
Node(k, text, args, children) ==
    [kind |-> k, text |-> text, args |-> args, children |-> children]

InstructionNode(name, args) == Node("Instruction", name, args, <<>>)
AssignmentNode(target, value) == Node("Assignment", target, <<value>>, <<>>)
LiteralNode(v) == Node("Literal", v, <<>>, <<>>)
MetadataNode(v) == Node("Metadata", v, <<>>, <<>>)
CommentNode(v) == Node("Comment", v, <<>>, <<>>)
BlockNode(children) == Node("Block", "", <<>>, children)
ErrorNode(msg) == Node("Error", msg, <<>>, <<>>)
CallNode(function, args) == Node("Call", function, args, <<>>)

\* Option::None of Option<ScrollNode>
NoNode == Node("None", "", <<>>, <<>>)

\* Result of one sub-parser: the Option<ScrollNode>, the cursor afterwards and
\* the number of tokens consumed by dispatches that returned None.
Result(n, p, l) == [node |-> n, pos |-> p, lost |-> l]

(***************************************************************************)
(* Parser: cursor utilities                                                *)
(***************************************************************************)
\* peek().is_some()
HasToken(toks, pos) == pos < Len(toks)

\* The token peek() returns when HasToken holds (position is 0-based).
Peek(toks, pos) == toks[pos + 1]

\* advance(): the cursor moves only when a token exists.
Advance(toks, pos) == IF HasToken(toks, pos) THEN pos + 1 ELSE pos

\* decode_instruction(token).is_some()
decode_instruction(token) == token.value \in RegistryKeys

(***************************************************************************)
(* Parser: sub-parsers                                                     *)
(***************************************************************************)
RECURSIVE CollectArgs(_, _, _)
\* The `while let Some(tok) = self.peek()` loop of parse_instruction.
CollectArgs(toks, pos, args) ==
    IF ~HasToken(toks, pos) THEN [args |-> args, pos |-> pos]
    ELSE LET tok == Peek(toks, pos)
         IN  IF tok.token_type \in {"Literal", "Identifier", "Operator"}
             THEN CollectArgs(toks, Advance(toks, pos), Append(args, tok.value))
             ELSE IF tok.token_type = "Whitespace"
             THEN CollectArgs(toks, Advance(toks, pos), args)
             ELSE [args |-> args, pos |-> pos]

\* Mutant: the keyword is not validated against the registry.
parse_instruction_Unvalidated(toks, pos) ==
    IF ~HasToken(toks, pos) THEN Result(NoNode, pos, 0)
    ELSE LET c == CollectArgs(toks, Advance(toks, pos), <<>>)
         IN  Result(InstructionNode(Peek(toks, pos).value, c.args), c.pos, 0)

\* Mutant: the token that ends the argument run is consumed too.
parse_instruction_TakesBoundary(toks, pos) ==
    IF ~HasToken(toks, pos) THEN Result(NoNode, pos, 0)
    ELSE LET token == Peek(toks, pos)
             p1 == Advance(toks, pos)
         IN  IF ~decode_instruction(token)
             THEN Result(ErrorNode("Unknown instruction '" \o token.value \o "'"), p1, 0)
             ELSE LET c == CollectArgs(toks, p1, <<>>)
                  IN  Result(InstructionNode(token.value, c.args), Advance(toks, c.pos), 0)

parse_instruction(toks, pos) ==
    IF ~HasToken(toks, pos) THEN Result(NoNode, pos, 0)
    ELSE LET token == Peek(toks, pos)
             p1 == Advance(toks, pos)
         IN  IF ~decode_instruction(token)
             THEN Result(ErrorNode("Unknown instruction '" \o token.value \o "'"), p1, 0)
             ELSE LET c == CollectArgs(toks, p1, <<>>)
                  IN  Result(InstructionNode(token.value, c.args), c.pos, 0)

parse_literal(toks, pos) ==
    IF ~HasToken(toks, pos) THEN Result(NoNode, pos, 0)
    ELSE Result(LiteralNode(Peek(toks, pos).value), Advance(toks, pos), 0)

parse_metadata(toks, pos) ==
    IF ~HasToken(toks, pos) THEN Result(NoNode, pos, 0)
    ELSE Result(MetadataNode(Peek(toks, pos).value), Advance(toks, pos), 0)

parse_comment(toks, pos) ==
    IF ~HasToken(toks, pos) THEN Result(NoNode, pos, 0)
    ELSE Result(CommentNode(Peek(toks, pos).value), Advance(toks, pos), 0)

\* walk_operand(): one token taken verbatim as the operand text; None at the
\* end of the stream.
walk_operand(toks, pos) ==
    IF ~HasToken(toks, pos) THEN [some |-> FALSE, value |-> "", pos |-> pos]
    ELSE [some |-> TRUE, value |-> Peek(toks, pos).value, pos |-> Advance(toks, pos)]

RECURSIVE CallArgs(_, _, _, _)
\* The `while let Some(token) = self.peek()` loop of parse_call.
CallArgs(toks, pos, function, args) ==
    IF ~HasToken(toks, pos) THEN Result(CallNode(function, args), pos, 0)
    ELSE IF Peek(toks, pos).value = ")"
    THEN Result(CallNode(function, args), Advance(toks, pos), 0)
    ELSE LET w == walk_operand(toks, pos)
         IN  IF ~w.some
             THEN Result(ErrorNode("Invalid argument in function call."), w.pos, 0)
             ELSE LET p2 == IF HasToken(toks, w.pos) /\ Peek(toks, w.pos).value = ","
                            THEN Advance(toks, w.pos) ELSE w.pos
                  IN  CallArgs(toks, p2, function, Append(args, w.value))

\* Mutant: the call parser starts its argument loop on the `(` itself.
parse_call_KeepsParen(toks, pos, function) ==
    IF ~HasToken(toks, pos) THEN Result(NoNode, pos, 0)
    ELSE IF Peek(toks, pos).value # "("
    THEN Result(ErrorNode("Expected '(' after function name."), Advance(toks, pos), 0)
    ELSE CallArgs(toks, pos, function, <<>>)

parse_call(toks, pos, function) ==
    IF ~HasToken(toks, pos) THEN Result(NoNode, pos, 0)
    ELSE IF Peek(toks, pos).value # "("
    THEN Result(ErrorNode("Expected '(' after function name."), Advance(toks, pos), 0)
    ELSE CallArgs(toks, Advance(toks, pos), function, <<>>)

parse_assignment_or_call(toks, pos) ==
    IF ~HasToken(toks, pos) THEN Result(NoNode, pos, 0)
    ELSE LET identifier == Peek(toks, pos)
             p1 == Advance(toks, pos)
         IN  IF ~HasToken(toks, p1)
             THEN Result(NoNode, p1, p1 - pos)                 \* self.peek()?
             ELSE LET next == Peek(toks, p1)
                  IN  IF next.value = "="
                      THEN LET p2 == Advance(toks, p1)
                           IN  IF ~HasToken(toks, p2)
                               THEN Result(NoNode, p2, p2 - pos)   \* self.advance()?
                               ELSE Result(AssignmentNode(identifier.value, Peek(toks, p2).value),
                                           Advance(toks, p2), 0)
                      ELSE IF next.value = "("
                      THEN parse_call(toks, p1, identifier.value)
                      ELSE Result(ErrorNode("Ambiguous identifier usage near '"
                                            \o identifier.value \o "'"), p1, 0)

\* Mutant: the fallback arm reports the token without skipping it.
UnrecognizedToken_NoAdvance(toks, pos) ==
    Result(ErrorNode("Unrecognized token: " \o Peek(toks, pos).value), pos, 0)

\* The `_ =>` arm of parse_node: skip the token and report it.
UnrecognizedToken(toks, pos) ==
    Result(ErrorNode("Unrecognized token: " \o Peek(toks, pos).value), Advance(toks, pos), 0)

RECURSIVE parse_node(_, _)
RECURSIVE BlockBody(_, _, _, _)

\* The `while let Some(token) = self.peek()` loop of parse_block.
BlockBody(toks, pos, children, l) ==
    IF ~HasToken(toks, pos) THEN Result(BlockNode(children), pos, l)
    ELSE LET token == Peek(toks, pos)
         IN  IF token.token_type = "GroupMarker" /\ token.value = "}"
             THEN Result(BlockNode(children), Advance(toks, pos), l)
             ELSE LET r == parse_node(toks, pos)
                  IN  IF r.node = NoNode
                      THEN Result(BlockNode(children), r.pos, l + r.lost)
                      ELSE BlockBody(toks, r.pos, Append(children, r.node), l + r.lost)

\* Mutant: the block parser takes the `{` and returns an empty Block.
parse_block_Empty(toks, pos) ==
    IF ~HasToken(toks, pos) THEN Result(NoNode, pos, 0)
    ELSE Result(BlockNode(<<>>), Advance(toks, pos), 0)

parse_block(toks, pos) ==
    IF ~HasToken(toks, pos) THEN Result(NoNode, pos, 0)
    ELSE LET open == Peek(toks, pos)
         IN  IF open.value # "{"
             THEN Result(ErrorNode("Expected '{' to open block, found '" \o open.value \o "'"),
                         Advance(toks, pos), 0)
             ELSE BlockBody(toks, Advance(toks, pos), <<>>, 0)

parse_node(toks, pos) ==
    IF ~HasToken(toks, pos) THEN Result(NoNode, pos, 0)
    ELSE LET token == Peek(toks, pos)
         IN  CASE token.token_type = "Instruction" -> parse_instruction(toks, pos)
               [] token.token_type = "Literal" -> parse_literal(toks, pos)
               [] token.token_type = "Identifier" -> parse_assignment_or_call(toks, pos)
               [] token.token_type = "Metadata" -> parse_metadata(toks, pos)
               [] token.token_type = "Comment" -> parse_comment(toks, pos)
               [] token.token_type = "GroupMarker" /\ token.value = "{" -> parse_block(toks, pos)
               [] OTHER -> UnrecognizedToken(toks, pos)

RECURSIVE ParseAll(_, _, _)
\* Parser::new(toks).parse().nodes computed in one go, from cursor pos.
ParseAll(toks, pos, acc) ==
    IF ~HasToken(toks, pos) THEN acc
    ELSE LET r == parse_node(toks, pos)
         IN  ParseAll(toks, r.pos, IF r.node = NoNode THEN acc ELSE Append(acc, r.node))

(***************************************************************************)
(* Parser: state machine of Parser::parse                                  *)
(***************************************************************************)
ScrollIdle ==
    /\ records = <<>>
    /\ history = <<>>
    /\ bearer = [status |-> "Idle"]

\* What a sub-parser call returned: the operation, the cursor it started
\* from, Ok/Err of a Result, Some/None of an Option, and the payload.
WalkOut(op, from, ok, some, value, args, node) ==
    [op |-> op, from |-> from, ok |-> ok, some |-> some, value |-> value,
     args |-> args, node |-> node]

NoOut == WalkOut("none", 0, TRUE, FALSE, "", <<>>, NoNode)

WalkerIdle ==
    /\ out = NoOut
    /\ calls = 0

\* Option<TokenStream>
NoStream == [present |-> FALSE]

TokenizerIdle ==
    /\ crate = "none"
    /\ tokenizer = [position |-> 0]
    /\ stream = <<>>
    /\ loops = 0
    /\ token_stream = NoStream

ResolverIdle ==
    /\ instruction = [status |-> "Idle"]
    /\ tier_order = "declared"
    /\ ops = 0
    /\ lastOp = "none"
    /\ sink = <<>>

\* Token lists of the tokenizer's tests: `let flame = "holy fire"` and
\* `bless(42)`.
SimpleAssignmentTokens ==
    << Token("Instruction", "let"), Token("Identifier", "flame"),
       Token("Operator", "="), Token("Literal", "holy fire") >>

GroupingAndNumberTokens ==
    << Token("Instruction", "bless"), Token("GroupMarker", "("),
       Token("Literal", "42"), Token("GroupMarker", ")") >>

\* The token lists of the two test_function_call tests.
FunctionCallTokens(function) ==
    << Token("Identifier", function), Token("Punctuation", "("),
       Token("Literal", "\"grace\""), Token("Punctuation", ","),
       Token("Literal", "\"mercy\""), Token("Punctuation", ")") >>

ScenarioTokens ==
    { SimpleAssignmentTokens, GroupingAndNumberTokens,
      FunctionCallTokens("invoke"), FunctionCallTokens("call") }

ParserInit ==
    /\ tokens \in SeqsUpTo(MaxLen) \cup ScenarioTokens
    /\ position = 0
    /\ nodes = <<>>
    /\ pc = "parsing"
    /\ iterations = 0
    /\ lost = 0
    /\ lastAdvance = 0
    /\ ResolverIdle
    /\ ScrollIdle
    /\ WalkerIdle
    /\ TokenizerIdle

\* One iteration of the `while self.peek().is_some()` loop of parse.
ParseStep ==
    /\ pc = "parsing"
    /\ HasToken(tokens, position)
    /\ LET r == parse_node(tokens, position)
       IN  /\ position' = r.pos
           /\ nodes' = IF r.node = NoNode THEN nodes ELSE Append(nodes, r.node)
           /\ lost' = lost + r.lost
           /\ lastAdvance' = r.pos - position
    /\ iterations' = iterations + 1
    /\ UNCHANGED <<tokens, pc, resolverVars, scrollVars, walkerVars, tokenizerVars>>

\* Loop exit: parse returns ScrollTree { nodes }.
ParseReturn ==
    /\ pc = "parsing"
    /\ ~HasToken(tokens, position)
    /\ pc' = "done"
    /\ UNCHANGED <<tokens, position, nodes, iterations, lost, lastAdvance, resolverVars, scrollVars,
                   walkerVars, tokenizerVars>>

ParserNext == ParseStep \/ ParseReturn

ParserSpec == ParserInit /\ [][ParserNext]_vars

(***************************************************************************)
(* Operand resolver (Bearer): data                                         *)
(***************************************************************************)
Operand(variant, text) == [variant |-> variant, text |-> text]

BindingOperand(name) == Operand("Binding", name)
LiteralOperand(value) == Operand("Literal", value)
InvalidOperand(text) == Operand("InvalidOperand", text)
PlaceholderOperand(text) == Operand("Placeholder", text)
InstructionRefOperand(name) == Operand("InstructionRef", name)
WildcardOperand == Operand("Wildcard", "")

TrustTiers == {"Certain", "Trusted", "Ambiguous", "Shadowed", "Invalid"}

\* Position of a tier in the declaration of enum TrustTier.
DeclaredRank(t) ==
    CASE t = "Certain" -> 0 [] t = "Trusted" -> 1 [] t = "Ambiguous" -> 2
      [] t = "Shadowed" -> 3 [] t = "Invalid" -> 4

\* The score the declaration's comments give each tier (100, 75, 50, 25, 0).
ScoredRank(t) ==
    CASE t = "Certain" -> 100 [] t = "Trusted" -> 75 [] t = "Ambiguous" -> 50
      [] t = "Shadowed" -> 25 [] t = "Invalid" -> 0

\* `a < b` on TrustTier.  The enum carries no ordering implementation, so the
\* comparison is either the derived one (declaration order) or one by score.
TierLess(order, a, b) ==
    IF order = "declared" THEN DeclaredRank(a) < DeclaredRank(b)
    ELSE ScoredRank(a) < ScoredRank(b)

EmptyMap == [k \in {} |-> ""]

\* HashMap::insert
Put(m, k, v) == [x \in (DOMAIN m) \cup {k} |-> IF x = k THEN v ELSE m[x]]

Range(m) == { m[k] : k \in DOMAIN m }

\* str::trim on the field texts the model feeds in.
Trim(str) ==
    CASE str = " " -> ""
      [] str = " x " -> "x"
      [] OTHER -> str

\* str::to_lowercase on the verbs the model feeds in.
ToLowercase(str) ==
    CASE str = "LET" -> "let"
      [] OTHER -> str

\* DebugEntry pushed on instruction.debug_trace: its severity.
Log(i, severity) == [i EXCEPT !.debug_trace = Append(@, severity)]

\* The resolution record of one instruction before its first pass.
NewInstruction(subject, verb, object) ==
    [ subject |-> subject, verb |-> verb, object |-> object, line |-> 1,
      status |-> "Unresolved",
      resolved_operands |-> <<>>,
      operand_bindings |-> EmptyMap,
      trust_flags |-> EmptyMap,
      trust_summary |-> "None",
      rewalk_flag |-> FALSE,
      retry_count |-> 0,
      defer_to_watchtower |-> FALSE,
      metadata_tags |-> EmptyMap,
      source_scroll |-> "None",
      operand_hint |-> "None",
      watchtower_hook |-> FALSE,
      debug_trace |-> <<>> ]

(***************************************************************************)
(* Operand resolver: stages of resolve_operands                            *)
(***************************************************************************)
\* extract_fields: the trimmed fields, and a diagnostic per empty field.
extract_fields(i) ==
    LET subject == Trim(i.subject)
        verb == Trim(i.verb)
        object == Trim(i.object)
        i1 == IF subject = "" THEN Log(i, "Broken") ELSE i
        i2 == IF verb = "" THEN Log(i1, "Drifted") ELSE i1
        i3 == IF object = "" THEN Log(i2, "Shadowed") ELSE i2
    IN  [instruction |-> i3, subject |-> subject, verb |-> verb, object |-> object]

match_verb_taxonomy(verb) ==
    LET v == ToLowercase(verb)
    IN  CASE v \in {"let", "set", "define"} -> "Assignment"
          [] v \in {"return", "yield"} -> "Control"
          [] v \in {"push", "append"} -> "Mutation"
          [] OTHER -> "None"

\* Mutant: the Control role also yields Symbol.
classify_pattern_ControlSymbol(subject, verb, object) ==
    IF match_verb_taxonomy(verb) \in {"Assignment", "Control"} THEN "Symbol" ELSE "Unknown"

classify_pattern(subject, verb, object) ==
    IF match_verb_taxonomy(verb) = "Assignment" THEN "Symbol" ELSE "Unknown"

\* Mutant: the Symbol arm builds an InvalidOperand.
build_operand_SymbolInvalid(object, operand_type) ==
    CASE operand_type = "Literal" -> LiteralOperand(object)
      [] OTHER -> InvalidOperand(object)

build_operand(object, operand_type) ==
    CASE operand_type = "Symbol" -> BindingOperand(object)
      [] operand_type = "Literal" -> LiteralOperand(object)
      [] OTHER -> InvalidOperand(object)

\* The `match operand_type` that grades the operand (resolve_operands and
\* refine_operand carry the same table).
TierOfType(operand_type) ==
    CASE operand_type = "Unknown" -> "Shadowed"
      [] operand_type = "Symbol" -> "Trusted"
      [] operand_type = "Literal" -> "Certain"
      [] OTHER -> "Ambiguous"

\* `if let Operand::Binding { name, .. }`: only a Binding is recorded.
RecordBinding(i, operand, tier) ==
    IF operand.variant = "Binding"
    THEN [i EXCEPT !.operand_bindings = Put(@, operand.text, operand),
                   !.trust_flags = Put(@, operand.text, tier)]
    ELSE i

update_instruction_state(i, resolved) ==
    IF resolved
    THEN Log([i EXCEPT !.status = "ReadyToAssemble"], "Valid")
    ELSE LET i1 == Log([i EXCEPT !.status = "RequiresResolution"], "Drifted")
         IN  IF i1.trust_summary = "None" THEN i1
             ELSE IF i1.trust_summary \in {"Shadowed", "Ambiguous"}
             THEN [Log([i1 EXCEPT !.rewalk_flag = TRUE,
                                  !.retry_count = @ + 1], "Shadowed")
                   EXCEPT !.defer_to_watchtower = TRUE]
             ELSE Log(i1, "Valid")

\* The loop of cascade_trust_summary: starting from Certain, the tier that no
\* trust flag is below.
CascadedTier(order, flags) ==
    LET candidates == {"Certain"} \cup Range(flags)
    IN  CHOOSE t \in candidates : \A u \in candidates : ~TierLess(order, u, t)

cascade_trust_summary(order, i) ==
    Log([i EXCEPT !.trust_summary = CascadedTier(order, i.trust_flags)], "Valid")

HasVariant(operands, variants) ==
    \E k \in 1..Len(operands) : operands[k].variant \in variants

\* The severity the status is reported with.
StatusSeverity(status) ==
    CASE status = "ReadyToAssemble" -> "Valid"
      [] status = "RequiresResolution" -> "Drifted"
      [] status = "RequiresRewalk" -> "Shadowed"
      [] status = "Invalid" -> "Broken"

\* Mutant: the hook's response is taken as the instruction's status.
emit_watchtower_log_HookSetsStatus(i) ==
    [instruction |-> IF i.watchtower_hook THEN [i EXCEPT !.status = "RequiresRewalk"] ELSE i,
     emitted |-> IF i.watchtower_hook
                 THEN i.debug_trace \o << StatusSeverity(i.status) >>
                 ELSE <<>>]

\* emit_watchtower_log borrows the instruction: the record after the call,
\* and the entries handed to the hook (each trace entry, then the status).
emit_watchtower_log(i) ==
    [instruction |-> i,
     emitted |-> IF i.watchtower_hook
                 THEN i.debug_trace \o << StatusSeverity(i.status) >>
                 ELSE <<>>]

report_to_watchtower(i) ==
    [instruction |-> i,
     emitted |-> IF i.watchtower_hook THEN << StatusSeverity(i.status) >> ELSE <<>>]

\* resolve_operands from stage 2 to stage 4, for non-empty fields.
StagesToStateUpdate(i, object, verb, subject) ==
    LET operand_type == classify_pattern(subject, verb, object)
        i1 == IF operand_type = "Unknown" THEN Log(i, "Drifted") ELSE i
        operand == build_operand(object, operand_type)
        trust_tier == TierOfType(operand_type)
        i2 == RecordBinding(i1, operand, trust_tier)
        is_resolved == operand_type # "Unknown"
    IN  update_instruction_state(i2, is_resolved)

\* resolve_operands after stage 1, for non-empty fields.
ResolveStages(order, i, object, verb, subject) ==
    LET operand_type == classify_pattern(subject, verb, object)
        operand == build_operand(object, operand_type)
        i3 == emit_watchtower_log(StagesToStateUpdate(i, object, verb, subject)).instruction
        i4 == cascade_trust_summary(order, i3)
        i5 == IF HasVariant(i4.resolved_operands, {"Placeholder"})
              THEN Log(i4, "Shadowed") ELSE i4
        i6 == [i5 EXCEPT !.metadata_tags = Put(@, "operand_origin", "Origin line: 1")]
        i7 == IF operand.variant \in {"Wildcard", "InstructionRef", "Placeholder"}
              THEN Log(i6, "Valid") ELSE i6
    IN  [i7 EXCEPT !.resolved_operands = Append(@, operand)]

\* Mutant: stage 1 sets no status and the pass goes on with empty fields.
resolve_operands_NoHalt(order, i) ==
    LET f == extract_fields(i)
    IN  ResolveStages(order, f.instruction, f.object, f.verb, f.subject)

resolve_operands(order, i) ==
    LET f == extract_fields(i)
    IN  IF f.subject = "" \/ f.verb = "" \/ f.object = ""
        THEN [f.instruction EXCEPT !.status = "Invalid"]
        ELSE ResolveStages(order, f.instruction, f.object, f.verb, f.subject)

\* What a resolve_operands pass hands to the hook.
resolve_emitted(i) ==
    LET f == extract_fields(i)
    IN  IF f.subject = "" \/ f.verb = "" \/ f.object = ""
        THEN <<>>
        ELSE emit_watchtower_log(
                 StagesToStateUpdate(f.instruction, f.object, f.verb, f.subject)).emitted

\* Stage 1 of resolve_operands lets the pass continue.
PassesStage1(i) == Trim(i.subject) # "" /\ Trim(i.verb) # "" /\ Trim(i.object) # ""

refine_operand(i, operand, operand_type) ==
    RecordBinding(i, operand, TierOfType(operand_type))

\* Mutant: a rewalk restarts the retry counter at one.
check_for_rewalk_RestartsRetry(i) ==
    IF HasVariant(i.resolved_operands, {"Placeholder", "InvalidOperand"})
    THEN Log([i EXCEPT !.rewalk_flag = TRUE,
                       !.retry_count = 1,
                       !.status = "RequiresRewalk"], "Drifted")
    ELSE i

check_for_rewalk(i) ==
    LET RECURSIVE Walk(_, _)
        Walk(k, acc) ==
            IF k > Len(i.resolved_operands) THEN acc
            ELSE LET operand == i.resolved_operands[k]
                 IN  IF operand.variant = "Placeholder"
                     THEN Walk(k + 1, Log(acc, "Shadowed"))
                     ELSE IF operand.variant = "InvalidOperand"
                     THEN Walk(k + 1, [Log(acc, "Broken") EXCEPT !.defer_to_watchtower = TRUE])
                     ELSE Walk(k + 1, acc)
        walked == Walk(1, i)
    IN  IF HasVariant(i.resolved_operands, {"Placeholder", "InvalidOperand"})
        THEN Log([walked EXCEPT !.rewalk_flag = TRUE,
                                !.retry_count = @ + 1,
                                !.status = "RequiresRewalk"], "Drifted")
        ELSE walked

handle_meta_operand(i, operand) ==
    CASE operand.variant = "Wildcard" ->
            [Log(i, "Valid") EXCEPT !.metadata_tags = Put(@, "meta_operand_type", "Wildcard")]
      [] operand.variant = "InstructionRef" ->
            [Log(i, "Valid") EXCEPT !.metadata_tags = Put(@, "meta_operand_type", "InstructionRef"),
                                    !.defer_to_watchtower = TRUE]
      [] operand.variant = "Placeholder" ->
            [Log(i, "Shadowed") EXCEPT !.metadata_tags = Put(@, "meta_operand_type", "Placeholder"),
                                       !.rewalk_flag = TRUE]
      [] OTHER -> i

\* insert_metadata: the tag is written when a value is present.
insert_metadata(i, key, value) ==
    IF value = "None" THEN i ELSE [i EXCEPT !.metadata_tags = Put(@, key, value)]

\* The role label of an operand variant.
OperandRole(operand) ==
    CASE operand.variant = "InvalidOperand" -> "Invalid"
      [] OTHER -> operand.variant

\* The label of the statuses the `match instruction.status` covers.
ResolutionState(status) ==
    CASE status = "ReadyToAssemble" -> "Final"
      [] status = "RequiresResolution" -> "Pending"
      [] status = "RequiresRewalk" -> "Rewalk"
      [] status = "Invalid" -> "Invalid"

tag_operand_metadata(i) ==
    LET i1 == insert_metadata(i, "operand_origin", "Origin line: 1")
        i2 == insert_metadata(i1, "trust_tier",
                  IF i1.trust_summary = "None" THEN "None"
                  ELSE "Trust tier: " \o i1.trust_summary)
        i3 == insert_metadata(i2, "operand_role",
                  IF i2.resolved_operands = <<>> THEN "None"
                  ELSE OperandRole(i2.resolved_operands[1]))
        i4 == insert_metadata(i3, "resolution_state", ResolutionState(i3.status))
        i5 == insert_metadata(i4, "source_scroll", i4.source_scroll)
    IN  insert_metadata(i5, "operand_hint", i5.operand_hint)

\* Mutant: a resolution_state tag of Final is taken as readiness.
finalize_operands_ReadsTag(i) ==
    IF \/ ~HasVariant(i.resolved_operands, {"InvalidOperand", "Placeholder"})
       \/ /\ "resolution_state" \in DOMAIN i.metadata_tags
          /\ i.metadata_tags["resolution_state"] = "Final"
    THEN [i EXCEPT !.status = "ReadyToAssemble"]
    ELSE Log([i EXCEPT !.status = "RequiresResolution"], "Broken")

\* Mutant: the status is set to ReadyToAssemble without the scan.
finalize_operands_AlwaysReady(i) ==
    [i EXCEPT !.status = "ReadyToAssemble"]

\* finalize_operands on the record held as current instruction.
finalize_operands(i) ==
    IF ~HasVariant(i.resolved_operands, {"InvalidOperand", "Placeholder"})
    THEN [i EXCEPT !.status = "ReadyToAssemble"]
    ELSE report_to_watchtower(
             Log([i EXCEPT !.status = "RequiresResolution"], "Broken")).instruction

\* What finalize_operands hands to the hook.
finalize_emitted(i) ==
    IF ~HasVariant(i.resolved_operands, {"InvalidOperand", "Placeholder"})
    THEN <<>>
    ELSE report_to_watchtower(
             Log([i EXCEPT !.status = "RequiresResolution"], "Broken")).emitted

(***************************************************************************)
(* Operand resolver: state machine over one resolution record              *)
(***************************************************************************)
\* The {subject, verb, object} triples the resolver is run on.
InstructionInputs ==
    { <<"", "let", "x">>,
      <<"flame", "let", "x">>,
      <<"flame", "LET", " x ">>,
      <<"flame", "let", "\"truth\"">>,
      <<"flame", "push", "x">>,
      <<"flame", "set", "x">>,
      <<"flame", "define", "x">>,
      <<"flame", "return", "x">>,
      <<"flame", "yield", "x">>,
      <<"flame", "append", "x">>,
      <<"flame", "wander", "_">>,
      <<"flame", " ", "x">> }

RefineOperands == { BindingOperand("x"), BindingOperand("y") }

RefineTypes == { "Unknown", "Literal" }

MetaOperands == { WildcardOperand, InstructionRefOperand("r"), PlaceholderOperand("_") }

ParserIdle ==
    /\ tokens = <<>>
    /\ position = 0
    /\ nodes = <<>>
    /\ pc = "idle"
    /\ iterations = 0
    /\ lost = 0
    /\ lastAdvance = 0

\* The record at entry, with or without a watchtower hook installed.
ResolverInit ==
    /\ \E in \in InstructionInputs, hook \in BOOLEAN :
          instruction = [NewInstruction(in[1], in[2], in[3]) EXCEPT !.watchtower_hook = hook]
    /\ tier_order \in {"declared", "scored"}
    /\ ops = 0
    /\ lastOp = "none"
    /\ sink = <<>>
    /\ ParserIdle
    /\ ScrollIdle
    /\ WalkerIdle
    /\ TokenizerIdle

\* One operation: the record it leaves and the entries it hands to the hook.
Step(name, next, emitted) ==
    /\ ops < MaxOps
    /\ instruction' = next
    /\ sink' = sink \o emitted
    /\ ops' = ops + 1
    /\ lastOp' = name
    /\ UNCHANGED <<tier_order, parserVars, scrollVars, walkerVars, tokenizerVars>>

ResolveOperands ==
    Step("resolve_operands", resolve_operands(tier_order, instruction),
         resolve_emitted(instruction))

RefineOperand ==
    \E operand \in RefineOperands, operand_type \in RefineTypes :
        Step("refine_operand", refine_operand(instruction, operand, operand_type), <<>>)

CheckForRewalk == Step("check_for_rewalk", check_for_rewalk(instruction), <<>>)

HandleMetaOperand ==
    \E operand \in MetaOperands :
        Step("handle_meta_operand", handle_meta_operand(instruction, operand), <<>>)

\* Enabled on the statuses the function's `match instruction.status` covers.
TagOperandMetadata ==
    /\ instruction.status \in {"ReadyToAssemble", "RequiresResolution", "RequiresRewalk", "Invalid"}
    /\ Step("tag_operand_metadata", tag_operand_metadata(instruction), <<>>)

FinalizeOperands ==
    Step("finalize_operands", finalize_operands(instruction), finalize_emitted(instruction))

ResolverNext ==
    \/ ResolveOperands
    \/ RefineOperand
    \/ CheckForRewalk
    \/ HandleMetaOperand
    \/ TagOperandMetadata
    \/ FinalizeOperands

ResolverSpec == ResolverInit /\ [][ResolverNext]_vars

(***************************************************************************)
(* Bearer: schema loading and the scroll-tree walk                         *)
(***************************************************************************)
\* operand_count of the registry entries.
OperandCount(name) ==
    CASE name \in {"wait", "break", "then", "else", "end"} -> 0
      [] name \in {"go", "walk", "speak", "hear", "bless", "curse", "recall"} -> 1
      [] name \in {"if", "store", "let"} -> 2

\* Option<OperandSchema>
NoSchema == [present |-> FALSE]

OperandSchema(arity) == [present |-> TRUE, arity |-> arity]

\* Registry lookup by instruction name: the schema, or absent.
get_schema(name) ==
    IF name \in RegistryKeys THEN OperandSchema(OperandCount(name)) ELSE NoSchema

\* Option<ScrollTree>: the root is the clause of one instruction (its index
\* among the records) and its children are the operand nodes, by token.
NoTree == [present |-> FALSE]

ScrollTree(k, children) ==
    [present |-> TRUE, root |-> [instruction |-> k, children |-> children]]

\* DebugEntry of the Bearer's own trace: severity and what it reports.
DebugEntry(severity, note) == [severity |-> severity, note |-> note]

\* Bearer::new()
NewBearer ==
    [ scroll_tree |-> NoTree,
      instruction_schema |-> NoSchema,
      resolved_operands |-> <<>>,
      operands |-> <<>>,
      debug_trace |-> <<>>,
      operand_bindings |-> EmptyMap,
      trust_flags |-> EmptyMap ]

record_debug_entry(b, entry) == [b EXCEPT !.debug_trace = Append(@, entry)]

load_instruction_schema(b, i) ==
    LET b1 == [b EXCEPT !.instruction_schema = get_schema(i.name)]
    IN  IF ~b1.instruction_schema.present
        THEN record_debug_entry(b1, DebugEntry("Broken", "Missing schema"))
        ELSE b1

\* Mutant: every operand count is accepted.
validate_arity_Always(node, schema) == TRUE

validate_arity(node, schema) == Len(node.children) = schema.arity

\* Shapes of the operand tokens the model feeds in: starts and ends with a
\* double quote, starts with `$`, starts with `ref:`.
QuotedTokens == {"\"truth\""}

DollarTokens == {"$flame"}

RefTokens == {"ref:r"}

classify_operand_type(token) ==
    IF token \in QuotedTokens THEN "Literal"
    ELSE IF token \in DollarTokens THEN "Binding"
    ELSE IF token = "*" THEN "Wildcard"
    ELSE IF token \in RefTokens THEN "InstructionRef"
    ELSE IF token = "_" THEN "Placeholder"
    ELSE "Unknown"

\* trim_matches('"'), trim_start_matches('$'), trim_start_matches("ref:")
TrimMatchesQuote(token) == CASE token = "\"truth\"" -> "truth" [] OTHER -> token

TrimStartDollar(token) == CASE token = "$flame" -> "flame" [] OTHER -> token

TrimStartRef(token) == CASE token = "ref:r" -> "r" [] OTHER -> token

construct_operand(token, operand_type) ==
    CASE operand_type = "Literal" -> LiteralOperand(TrimMatchesQuote(token))
      [] operand_type = "Binding" -> BindingOperand(TrimStartDollar(token))
      [] operand_type = "Wildcard" -> WildcardOperand
      [] operand_type = "InstructionRef" -> InstructionRefOperand(TrimStartRef(token))
      [] operand_type = "Placeholder" -> PlaceholderOperand("_")
      [] operand_type = "Unknown" -> InvalidOperand(token)

mark_trust_level(operand) ==
    CASE operand.variant \in {"Literal", "Binding"} -> "Sealed"
      [] operand.variant \in {"Wildcard", "InstructionRef"} -> "Ambiguous"
      [] operand.variant = "Placeholder" -> "Shadowed"
      [] operand.variant = "InvalidOperand" -> "Broken"

RECURSIVE WalkNodes(_, _, _)
\* The `for node in operand_nodes` loop of walk_scroll_tree.
WalkNodes(b, operand_nodes, n) ==
    IF n > Len(operand_nodes) THEN b
    ELSE LET operand_type == classify_operand_type(operand_nodes[n])
             operand == construct_operand(operand_nodes[n], operand_type)
             trust == mark_trust_level(operand)
             b1 == [b EXCEPT !.operands = Append(@, operand)]
         IN  WalkNodes(record_debug_entry(b1, DebugEntry("Valid", trust)),
                       operand_nodes, n + 1)

walk_scroll_tree(b) ==
    IF ~b.scroll_tree.present \/ ~b.instruction_schema.present THEN b
    ELSE IF ~validate_arity(b.scroll_tree.root, b.instruction_schema)
    THEN record_debug_entry(b, DebugEntry("Broken", "Arity mismatch"))
    ELSE WalkNodes(b, b.scroll_tree.root.children, 1)

begin_resolution(b, scroll_tree) ==
    walk_scroll_tree([b EXCEPT !.scroll_tree = scroll_tree])

(***************************************************************************)
(* Scroll: one Bearer and the resolution records of two instructions       *)
(***************************************************************************)
Recs == {1, 2}

\* The {name, subject, verb, object} of the instructions of the scroll.
ScrollInputs ==
    { <<"let", "flame", "let", "x">>,
      <<"let", "", "let", "x">>,
      <<"bless", "flame", "bless", "_">>,
      <<"invoke", "flame", "invoke", "x">> }

\* The operand nodes of the clauses handed to begin_resolution.
ScrollChildren ==
    { <<"$flame", "\"truth\"">>, <<"_">>, <<"*", "q">>, <<"ref:r">> }

\* The resolution record with the instruction's registry name.
NamedInstruction(name, subject, verb, object) ==
    [name |-> name] @@ NewInstruction(subject, verb, object)

ScrollInit ==
    /\ records \in [Recs -> { NamedInstruction(in[1], in[2], in[3], in[4]) : in \in ScrollInputs }]
    /\ history = [k \in Recs |-> <<>>]
    /\ bearer = NewBearer
    /\ tier_order \in {"declared", "scored"}
    /\ instruction = [status |-> "Idle"]
    /\ ops = 0
    /\ lastOp = "none"
    /\ sink = <<>>
    /\ ParserIdle
    /\ WalkerIdle
    /\ TokenizerIdle

ScrollStep(name) ==
    /\ ops < MaxScrollOps
    /\ ops' = ops + 1
    /\ lastOp' = name
    /\ UNCHANGED <<instruction, tier_order, sink, parserVars, walkerVars, tokenizerVars>>

\* Mutant: the trust flags written for one record are written on every
\* record.
ApplyToRecord_SharedFlags(rs, k, next) ==
    [j \in DOMAIN rs |->
        IF j = k THEN next ELSE [rs[j] EXCEPT !.trust_flags = next.trust_flags]]

\* A resolver function run on `instruction: &mut Instruction`: record k is
\* replaced by the function's result.
ApplyToRecord(rs, k, next) == [rs EXCEPT ![k] = next]

Noted(k, name) == [history EXCEPT ![k] = Append(@, name)]

ResolveRecord(k) ==
    /\ ScrollStep("resolve_operands")
    /\ records' = ApplyToRecord(records, k, resolve_operands(tier_order, records[k]))
    /\ history' = Noted(k, "resolve_operands")
    /\ UNCHANGED bearer

RewalkRecord(k) ==
    /\ ScrollStep("check_for_rewalk")
    /\ records' = ApplyToRecord(records, k, check_for_rewalk(records[k]))
    /\ history' = Noted(k, "check_for_rewalk")
    /\ UNCHANGED bearer

LoadInstructionSchema(k) ==
    /\ ScrollStep("load_instruction_schema")
    /\ bearer' = load_instruction_schema(bearer, records[k])
    /\ history' = Noted(k, "load_instruction_schema")
    /\ UNCHANGED records

BeginResolution(k) ==
    \E children \in ScrollChildren :
        /\ ScrollStep("begin_resolution")
        /\ bearer' = begin_resolution(bearer, ScrollTree(k, children))
        /\ history' = Noted(k, "begin_resolution")
        /\ UNCHANGED records

WalkScrollTree ==
    /\ ScrollStep("walk_scroll_tree")
    /\ bearer' = walk_scroll_tree(bearer)
    /\ history' = IF bearer.scroll_tree.present
                  THEN Noted(bearer.scroll_tree.root.instruction, "walk_scroll_tree")
                  ELSE history
    /\ UNCHANGED records

ScrollNext ==
    \/ \E k \in Recs : ResolveRecord(k)
    \/ \E k \in Recs : RewalkRecord(k)
    \/ \E k \in Recs : LoadInstructionSchema(k)
    \/ \E k \in Recs : BeginResolution(k)
    \/ WalkScrollTree

ScrollSpec == ScrollInit /\ [][ScrollNext]_vars

(***************************************************************************)
(* Parser: grammar walkers and sub-parsers                                 *)
(***************************************************************************)
\* Option<String>: None, or Some(value), and the cursor afterwards.
Walked(some, value, pos) == [some |-> some, value |-> value, pos |-> pos]

RECURSIVE ConditionLoop(_, _, _)
\* The `while let Some(token) = self.peek()` loop of walk_condition.
ConditionLoop(toks, pos, condition) ==
    IF ~HasToken(toks, pos) THEN Walked(TRUE, condition, pos)
    ELSE IF Peek(toks, pos).value \in {"{", ";"} THEN Walked(TRUE, condition, pos)
    ELSE LET spaced == IF condition # "" THEN condition \o " " ELSE condition
         IN  ConditionLoop(toks, Advance(toks, pos), spaced \o Peek(toks, pos).value)

walk_condition(toks, pos) ==
    LET r == ConditionLoop(toks, pos, "")
    IN  Walked(r.value # "", r.value, r.pos)

walk_type_annotation(toks, pos) ==
    IF ~HasToken(toks, pos) THEN Walked(FALSE, "", pos)             \* self.peek()?
    ELSE IF Peek(toks, pos).value # ":" THEN Walked(FALSE, "", pos)
    ELSE LET p1 == Advance(toks, pos)
         IN  IF ~HasToken(toks, p1) THEN Walked(FALSE, "", p1)      \* self.peek()?
             ELSE IF Peek(toks, p1).token_type # "Identifier" THEN Walked(FALSE, "", p1)
             ELSE Walked(TRUE, Peek(toks, p1).value, Advance(toks, p1))

\* Result<Vec<String>, ParseError>: Ok(args) or Err(kind), and the cursor
\* afterwards.
ArgList(ok, kind, args, pos) == [ok |-> ok, kind |-> kind, args |-> args, pos |-> pos]

RECURSIVE ArgumentLoop(_, _, _)
\* The `while let Some(token) = self.peek()` loop of parse_argument_list.
ArgumentLoop(toks, pos, args) ==
    IF ~HasToken(toks, pos) THEN ArgList(TRUE, "", args, pos)
    ELSE IF Peek(toks, pos).value = ")" THEN ArgList(TRUE, "", args, Advance(toks, pos))
    ELSE IF Peek(toks, pos).value = "," THEN ArgumentLoop(toks, Advance(toks, pos), args)
    ELSE ArgumentLoop(toks, Advance(toks, pos), Append(args, Peek(toks, pos).value))

\* Mutant: a comma right after `(` stands for an empty first argument.
parse_argument_list_EmptyFirst(toks, pos) ==
    IF ~HasToken(toks, pos) THEN ArgList(FALSE, "UnexpectedEOF", <<>>, pos)
    ELSE IF Peek(toks, pos).value # "(" THEN ArgList(TRUE, "", <<>>, pos)
    ELSE LET p1 == Advance(toks, pos)
         IN  ArgumentLoop(toks, p1, IF HasToken(toks, p1) /\ Peek(toks, p1).value = ","
                                    THEN << "" >> ELSE <<>>)

parse_argument_list(toks, pos) ==
    IF ~HasToken(toks, pos) THEN ArgList(FALSE, "UnexpectedEOF", <<>>, pos)
    ELSE IF Peek(toks, pos).value # "(" THEN ArgList(TRUE, "", <<>>, pos)
    ELSE ArgumentLoop(toks, Advance(toks, pos), <<>>)

\* ScrollNode::Declaration { name, dtype }; dtype is the Option<String> as a
\* list of at most one type name.
DeclarationNode(name, dtype) == Node("Declaration", name, dtype, <<>>)

\* Mutant: the declaration parser does not look for a type annotation.
parse_declaration_Untyped(toks, pos) ==
    IF ~HasToken(toks, pos) THEN Result(NoNode, pos, 0)
    ELSE LET p1 == Advance(toks, pos)
         IN  IF ~HasToken(toks, p1) THEN Result(NoNode, p1, 0)
             ELSE Result(DeclarationNode(Peek(toks, p1).value, <<>>), Advance(toks, p1), 0)

parse_declaration(toks, pos) ==
    IF ~HasToken(toks, pos) THEN Result(NoNode, pos, 0)             \* self.advance()?
    ELSE LET p1 == Advance(toks, pos)
         IN  IF ~HasToken(toks, p1) THEN Result(NoNode, p1, 0)      \* self.advance()?
             ELSE LET dtype == walk_type_annotation(toks, Advance(toks, p1))
                  IN  Result(DeclarationNode(Peek(toks, p1).value,
                                             IF dtype.some THEN << dtype.value >> ELSE <<>>),
                             dtype.pos, 0)

\* ScrollNode::Conditional { condition, body } and ScrollNode::Loop
\* { condition, body }; body is the one-element list holding the block.
ConditionalNode(condition, body) == Node("Conditional", condition, <<>>, body)

LoopNode(condition, body) == Node("Loop", condition, <<>>, body)

\* The three `?` steps shared by parse_conditional and parse_loop: keyword,
\* condition, block.  stage tells which step returned None.
Guarded(toks, pos) ==
    IF ~HasToken(toks, pos)
    THEN [stage |-> "keyword", condition |-> "", body |-> NoNode, pos |-> pos]
    ELSE LET c == walk_condition(toks, Advance(toks, pos))
         IN  IF ~c.some
             THEN [stage |-> "condition", condition |-> "", body |-> NoNode, pos |-> c.pos]
             ELSE LET b == parse_block(toks, c.pos)
                  IN  [stage |-> IF b.node = NoNode THEN "block" ELSE "done",
                       condition |-> c.value, body |-> b.node, pos |-> b.pos]

parse_conditional(toks, pos) ==
    LET g == Guarded(toks, pos)
    IN  IF g.stage # "done" THEN Result(NoNode, g.pos, 0)
        ELSE Result(ConditionalNode(g.condition, << g.body >>), g.pos, 0)

parse_loop(toks, pos) ==
    LET g == Guarded(toks, pos)
    IN  IF g.stage # "done" THEN Result(NoNode, g.pos, 0)
        ELSE Result(LoopNode(g.condition, << g.body >>), g.pos, 0)

\* The Gate copies keep the Option of parse_block and call unwrap() on it
\* when building the node: a None block is a panic.  (The Gate block parser
\* returns None in the same case, an exhausted stream at its first advance.)
GateResult(n, p, panicked) == [node |-> n, pos |-> p, panicked |-> panicked]

gate_parse_conditional(toks, pos) ==
    LET g == Guarded(toks, pos)
    IN  IF g.stage = "block" THEN GateResult(NoNode, g.pos, TRUE)
        ELSE IF g.stage # "done" THEN GateResult(NoNode, g.pos, FALSE)
        ELSE GateResult(ConditionalNode(g.condition, << g.body >>), g.pos, FALSE)

gate_parse_loop(toks, pos) ==
    LET g == Guarded(toks, pos)
    IN  IF g.stage = "block" THEN GateResult(NoNode, g.pos, TRUE)
        ELSE IF g.stage # "done" THEN GateResult(NoNode, g.pos, FALSE)
        ELSE GateResult(LoopNode(g.condition, << g.body >>), g.pos, FALSE)

(***************************************************************************)
(* Walkers: state machine of a caller of the public sub-parsers            *)
(***************************************************************************)
\* Token texts of the walkers' grammar; the tokenizer strips the quotes of a
\* string literal, so `""` in a scroll is a Literal token with empty text.
WalkerAlphabet ==
    { Token("Identifier", "truth"),
      Token("Operator", ":"),
      Token("Punctuation", ";"),
      Token("Punctuation", ","),
      Token("GroupMarker", "{"),
      Token("GroupMarker", "}"),
      Token("GroupMarker", "("),
      Token("GroupMarker", ")"),
      Token("Literal", "") }

RECURSIVE WalkerSeqs(_)
WalkerSeqs(n) ==
    IF n = 0 THEN { <<>> }
    ELSE LET shorter == WalkerSeqs(n - 1)
         IN  shorter \cup { Append(s, t) : s \in { q \in shorter : Len(q) = n - 1 },
                                            t \in WalkerAlphabet }

\* The token list of test_parse_declaration.
DeclarationTokens ==
    << Token("Instruction", "let"), Token("Identifier", "truth"),
       Token("Operator", ":"), Token("Identifier", "String") >>

\* The token list of the two test_parse_loop tests.
LoopTokens ==
    << Token("Instruction", "while"), Token("Identifier", "x"),
       Token("Operator", "<"), Token("Literal", "10"),
       Token("GroupMarker", "{"), Token("Instruction", "step"),
       Token("Literal", "\"forward\""), Token("GroupMarker", "}") >>

WalkerScenarios == { DeclarationTokens, LoopTokens }

WalkerInit ==
    /\ tokens \in WalkerSeqs(MaxWalkLen) \cup WalkerScenarios
    /\ position = 0
    /\ nodes = <<>>
    /\ pc = "walking"
    /\ iterations = 0
    /\ lost = 0
    /\ lastAdvance = 0
    /\ ResolverIdle
    /\ ScrollIdle
    /\ WalkerIdle
    /\ TokenizerIdle

\* Mutant: a call pops the tokens it consumed off the list, as a queue-based
\* parser would.
Walk_PopsTokens(pos, result) ==
    /\ pc = "walking"
    /\ calls < MaxWalks
    /\ tokens' = SubSeq(tokens, pos + 1, Len(tokens))
    /\ position' = 0
    /\ out' = result
    /\ calls' = calls + 1
    /\ UNCHANGED <<nodes, pc, iterations, lost, lastAdvance, resolverVars, scrollVars, tokenizerVars>>

\* One call of a sub-parser at the cursor: the cursor it leaves and what it
\* returns.
Walk(pos, result) ==
    /\ pc = "walking"
    /\ calls < MaxWalks
    /\ position' = pos
    /\ out' = result
    /\ calls' = calls + 1
    /\ UNCHANGED <<tokens, nodes, pc, iterations, lost, lastAdvance, resolverVars, scrollVars, tokenizerVars>>

WalkCondition ==
    LET r == walk_condition(tokens, position)
    IN  Walk(r.pos, WalkOut("walk_condition", position, TRUE, r.some, r.value, <<>>, NoNode))

WalkTypeAnnotation ==
    LET r == walk_type_annotation(tokens, position)
    IN  Walk(r.pos, WalkOut("walk_type_annotation", position, TRUE, r.some, r.value, <<>>, NoNode))

ParseArgumentList ==
    LET r == parse_argument_list(tokens, position)
    IN  Walk(r.pos, WalkOut("parse_argument_list", position, r.ok, FALSE, r.kind, r.args, NoNode))

ParseDeclaration ==
    LET r == parse_declaration(tokens, position)
    IN  Walk(r.pos, WalkOut("parse_declaration", position, TRUE, r.node # NoNode, "", <<>>, r.node))

ParseConditional ==
    LET r == parse_conditional(tokens, position)
    IN  Walk(r.pos, WalkOut("parse_conditional", position, TRUE, r.node # NoNode, "", <<>>, r.node))

ParseLoop ==
    LET r == parse_loop(tokens, position)
    IN  Walk(r.pos, WalkOut("parse_loop", position, TRUE, r.node # NoNode, "", <<>>, r.node))

\* One call of a Gate sub-parser; a panic ends the caller.
GateWalk(op, r) ==
    /\ pc = "walking"
    /\ calls < MaxWalks
    /\ position' = r.pos
    /\ out' = WalkOut(op, position, TRUE, r.node # NoNode, "", <<>>, r.node)
    /\ calls' = calls + 1
    /\ pc' = IF r.panicked THEN "panicked" ELSE pc
    /\ UNCHANGED <<tokens, nodes, iterations, lost, lastAdvance, resolverVars, scrollVars, tokenizerVars>>

GateParseConditional ==
    GateWalk("gate_parse_conditional", gate_parse_conditional(tokens, position))

GateParseLoop ==
    GateWalk("gate_parse_loop", gate_parse_loop(tokens, position))

WalkerNext ==
    \/ WalkCondition
    \/ WalkTypeAnnotation
    \/ ParseArgumentList
    \/ ParseDeclaration
    \/ ParseConditional
    \/ ParseLoop
    \/ GateParseConditional
    \/ GateParseLoop

WalkerSpec == WalkerInit /\ [][WalkerNext]_vars

(***************************************************************************)
(* Tokenizer                                                               *)
(***************************************************************************)
\* The characters the tokenizer is run on, one string per char: U+00B2 is
\* SUPERSCRIPT TWO and U+0663 is ARABIC-INDIC DIGIT THREE.
TokenizerAlphabet ==
    { " ", "\n", "#", "\"", "'", "\\", "+", "(", ")", "a", "7", "!", "U+00B2" }

\* The chars of `bless(42)` and of a line holding one Arabic-Indic digit.
SourceScenarios ==
    { << "b", "l", "e", "s", "s", "(", "4", "2", ")" >>,
      << "a", " ", "+", " ", "U+0663", "\n" >> }

\* char::is_alphabetic, char::is_ascii_digit, char::is_numeric and
\* char::is_alphanumeric on those characters.
is_alphabetic(c) == c \in {"a", "b", "e", "l", "s"}

is_ascii_digit(c) == c \in {"7", "4", "2"}

is_numeric(c) == is_ascii_digit(c) \/ c \in {"U+00B2", "U+0663"}

is_alphanumeric(c) == is_alphabetic(c) \/ is_numeric(c)

\* Tokenizer::new
NewTokenizer(source_code) ==
    [source |-> source_code, position |-> 0, line |-> 1, column |-> 0,
     current_indent |-> 0, group_stack |-> <<>>]

\* Tokenizer::peek is Some
HasChar(src, pos) == pos < Len(src)

\* The char Tokenizer::peek returns
PeekChar(src, pos) == src[pos + 1]

\* The cursor after Tokenizer::advance
AdvanceChar(src, pos) == IF HasChar(src, pos) THEN pos + 1 ELSE pos

\* What a sub-tokenizer returns: the token and the cursor afterwards.
Scanned(t, v, pos) == [token |-> Token(t, v), pos |-> pos]

RECURSIVE consume_whitespace(_, _)
consume_whitespace(src, pos) ==
    IF HasChar(src, pos) /\ PeekChar(src, pos) \in {" ", "\t"}
    THEN consume_whitespace(src, AdvanceChar(src, pos))
    ELSE pos

\* tokenize_comment_or_meta: the content runs up to the newline or the end.
\* It starts with the `#` the call was dispatched on, so trim_start() leaves
\* it as it is and the prefix test reads its second character.
tokenize_comment_or_meta(src, pos) ==
    LET RECURSIVE Loop(_, _)
        Loop(p, content) ==
            IF ~HasChar(src, p) \/ PeekChar(src, p) = "\n"
            THEN [content |-> content, pos |-> p]
            ELSE Loop(AdvanceChar(src, p), content \o PeekChar(src, p))
        c == Loop(pos, "")
    IN  IF c.pos >= pos + 2 /\ PeekChar(src, pos) = "#" /\ PeekChar(src, pos + 1) = "!"
        THEN Scanned("Metadata", c.content, c.pos)
        ELSE Scanned("Comment", c.content, c.pos)

\* The char an escape sequence stands for.
Escaped(c) ==
    CASE c = "n" -> "\n"
      [] c = "t" -> "\t"
      [] OTHER -> c

tokenize_string(src, pos) ==
    LET RECURSIVE Loop(_, _)
        Loop(p, content) ==
            IF ~HasChar(src, p) THEN [content |-> content, pos |-> p]
            ELSE LET c == PeekChar(src, p)
                     next == AdvanceChar(src, p)
                 IN  IF c = "\"" THEN [content |-> content, pos |-> next]
                     ELSE IF c = "\\"
                     THEN IF HasChar(src, next)
                          THEN Loop(AdvanceChar(src, next),
                                    content \o Escaped(PeekChar(src, next)))
                          ELSE Loop(next, content)
                     ELSE Loop(next, content \o c)
        s == Loop(AdvanceChar(src, pos), "")
    IN  Scanned("Literal", s.content, s.pos)

\* tokenize_char; U+FFFD is the replacement character of a malformed literal.
tokenize_char(src, pos) ==
    LET opened == AdvanceChar(src, pos)
        inner ==
            IF ~HasChar(src, opened) THEN [value |-> "U+FFFD", pos |-> opened]
            ELSE IF PeekChar(src, opened) = "\\"
            THEN LET escaped == AdvanceChar(src, opened)
                 IN  IF HasChar(src, escaped)
                     THEN [value |-> Escaped(PeekChar(src, escaped)),
                           pos |-> AdvanceChar(src, escaped)]
                     ELSE [value |-> "U+FFFD", pos |-> escaped]
            ELSE [value |-> PeekChar(src, opened), pos |-> AdvanceChar(src, opened)]
    IN  Scanned("Literal", inner.value, AdvanceChar(src, inner.pos))

\* tokenize_char of the Gate crate: no escape handling.
gate_tokenize_char(src, pos) ==
    LET opened == AdvanceChar(src, pos)
        ch == IF HasChar(src, opened) THEN PeekChar(src, opened) ELSE "U+FFFD"
    IN  Scanned("Literal", ch, AdvanceChar(src, AdvanceChar(src, AdvanceChar(src, opened))))

OperatorChars == {":", "=", "+", "-", "*", "/", "%", "&", "|", "<", ">"}

tokenize_operator(src, pos) ==
    LET RECURSIVE Loop(_, _)
        Loop(p, content) ==
            IF HasChar(src, p) /\ PeekChar(src, p) \in OperatorChars
            THEN Loop(AdvanceChar(src, p), content \o PeekChar(src, p))
            ELSE Scanned("Operator", content, p)
    IN  Loop(pos, "")

\* tokenize_number: its loop takes ASCII digits only.
tokenize_number(src, pos) ==
    LET RECURSIVE Loop(_, _)
        Loop(p, num) ==
            IF HasChar(src, p) /\ is_ascii_digit(PeekChar(src, p))
            THEN Loop(AdvanceChar(src, p), num \o PeekChar(src, p))
            ELSE Scanned("Literal", num, p)
    IN  Loop(pos, "")

\* tokenize_word, with the registry of get_instruction_registry() as the
\* instruction map.
tokenize_word(src, pos) ==
    LET RECURSIVE Loop(_, _)
        Loop(p, word) ==
            IF HasChar(src, p) /\ (is_alphanumeric(PeekChar(src, p)) \/ PeekChar(src, p) = "_")
            THEN Loop(AdvanceChar(src, p), word \o PeekChar(src, p))
            ELSE [word |-> word, pos |-> p]
        w == Loop(pos, "")
    IN  Scanned(IF w.word \in RegistryKeys THEN "Instruction" ELSE "Identifier", w.word, w.pos)

\* One iteration of the main loop of tokenize: the Tokenizer afterwards and
\* the tokens pushed, in the crate `build`.
tokenize_iteration(build, t) ==
    LET src == t.source
        pos == t.position
        ch == PeekChar(src, pos)
        Moved(to) == [t EXCEPT !.position = to, !.column = @ + (to - pos)]
        Pushed(scan) == [tokenizer |-> Moved(scan.pos), pushed |-> << scan.token >>]
    IN  IF ch \in {" ", "\t"}
        THEN [tokenizer |-> Moved(consume_whitespace(src, pos)), pushed |-> <<>>]
        ELSE IF ch = "\n"
        THEN [tokenizer |-> [t EXCEPT !.position = AdvanceChar(src, pos),
                                      !.line = @ + 1,
                                      !.column = 0],
              pushed |-> <<>>]
        ELSE IF ch = "#" THEN Pushed(tokenize_comment_or_meta(src, pos))
        ELSE IF ch = "\"" THEN Pushed(tokenize_string(src, pos))
        ELSE IF ch = "'"
        THEN Pushed(IF build = "Gate" THEN gate_tokenize_char(src, pos)
                    ELSE tokenize_char(src, pos))
        ELSE IF ch \in OperatorChars THEN Pushed(tokenize_operator(src, pos))
        ELSE IF ch = "("
        THEN [tokenizer |-> [Moved(AdvanceChar(src, pos))
                             EXCEPT !.group_stack = Append(@, "GroupMarker")],
              pushed |-> << Token("GroupMarker", "(") >>]
        ELSE IF ch = ")"
        THEN [tokenizer |-> [Moved(AdvanceChar(src, pos))
                             EXCEPT !.group_stack =
                                 IF @ = <<>> THEN @ ELSE SubSeq(@, 1, Len(@) - 1)],
              pushed |-> << Token("GroupMarker", ")") >>]
        ELSE IF is_alphabetic(ch) THEN Pushed(tokenize_word(src, pos))
        ELSE IF is_numeric(ch) THEN Pushed(tokenize_number(src, pos))
        ELSE [tokenizer |-> Moved(AdvanceChar(src, pos)),
              pushed |-> << Token("Error", ch) >>]

\* The TokenStream tokenize returns: the tokens, the line metadata computed
\* from the lines of the source (str::lines leaves a last empty line out), and
\* the error list, which nothing is pushed on.
TokenStream(toks, src) ==
    LET RECURSIVE Lines(_, _)
        Lines(k, line) ==
            IF k > Len(src) THEN (IF line = <<>> THEN <<>> ELSE << line >>)
            ELSE IF src[k] = "\n" THEN << line >> \o Lines(k + 1, <<>>)
            ELSE Lines(k + 1, Append(line, src[k]))
        RECURSIVE Indentation(_)
        Indentation(line) ==
            IF line # <<>> /\ Head(line) \in {" ", "\t"}
            THEN 1 + Indentation(Tail(line)) ELSE 0
        ls == Lines(1, <<>>)
    IN  [present |-> TRUE,
         tokens |-> toks,
         line_meta |-> [k \in 1..Len(ls) |->
                           [line_number |-> k,
                            indentation |-> Indentation(ls[k]),
                            is_blank |-> \A j \in 1..Len(ls[k]) : ls[k][j] \in {" ", "\t"}]],
         errors |-> <<>>]

RECURSIVE Sources(_)
Sources(n) ==
    IF n = 0 THEN { <<>> }
    ELSE LET shorter == Sources(n - 1)
         IN  shorter \cup { Append(s, c) : s \in { q \in shorter : Len(q) = n - 1 },
                                            c \in TokenizerAlphabet }

TokenizerInit ==
    /\ crate \in {"Tablet", "Gate"}
    /\ \E source_code \in Sources(MaxSourceLen) \cup SourceScenarios :
          tokenizer = NewTokenizer(source_code)
    /\ stream = <<>>
    /\ loops = 0
    /\ token_stream = NoStream
    /\ ParserIdle
    /\ ResolverIdle
    /\ ScrollIdle
    /\ WalkerIdle

\* One pass of `while let Some(ch) = self.peek()`.
TokenizeIteration ==
    /\ ~token_stream.present
    /\ HasChar(tokenizer.source, tokenizer.position)
    /\ loops < MaxIterations
    /\ LET i == tokenize_iteration(crate, tokenizer)
       IN  /\ tokenizer' = i.tokenizer
           /\ stream' = stream \o i.pushed
    /\ loops' = loops + 1
    /\ UNCHANGED <<crate, token_stream, parserVars, resolverVars, scrollVars, walkerVars>>

\* The loop is left when peek() is None, and the TokenStream is returned.
TokenizeReturn ==
    /\ ~token_stream.present
    /\ ~HasChar(tokenizer.source, tokenizer.position)
    /\ token_stream' = TokenStream(stream, tokenizer.source)
    /\ UNCHANGED <<crate, tokenizer, stream, loops, parserVars, resolverVars, scrollVars,
                   walkerVars>>

TokenizerNext == TokenizeIteration \/ TokenizeReturn

TokenizerSpec == TokenizerInit /\ [][TokenizerNext]_vars

(***************************************************************************)
(* ScrollTree validation                                                   *)
(***************************************************************************)
\* Parser::is_valid_sentence with Some(object).
is_valid_sentence(subject, verb, object) ==
    Trim(subject) # "" /\ Trim(verb) # "" /\ Trim(object) # ""

\* One arm of the match of validate_with_scripture: FALSE is `return false`.
\* A ScrollSentence node carries its verb as text and <<subject, object>> as
\* args; a Return node carries its value as text.
ScriptureAccepts(node) ==
    CASE node.kind = "ScrollSentence" -> is_valid_sentence(node.args[1], node.text, node.args[2])
      [] node.kind = "Instruction" -> decode_instruction(Token("Identifier", node.text))
      [] node.kind = "Return" -> ~(Trim(node.text) = "" \/ node.text = "None")
      [] OTHER -> TRUE

\* ScrollTree::validate_with_scripture: the loop over the top-level nodes.
validate_with_scripture(ns) ==
    \A i \in 1..Len(ns) : ScriptureAccepts(ns[i])

(***************************************************************************)
(* Parser properties                                                       *)
(***************************************************************************)
ArgKinds == {"Literal", "Identifier", "Operator"}

\* C1: parse returns a tree for every token list and every construct the
\* top-level dispatcher handled is in the tree, as a regular node or as an
\* Error node: when parse has returned, the tree has one node per dispatch.
C1_MalformedBecomesError ==
    pc = "done" => Len(nodes) = iterations

\* C2: every top-level dispatch made while a token is available advances the
\* cursor by at least one token, so the loop runs at most len(tokens) times
\* and parse returns with the cursor at the end of the list.
C2_ParseTerminates ==
    /\ iterations > 0 => lastAdvance >= 1
    /\ iterations <= Len(tokens)
    /\ position <= Len(tokens)
    /\ pc = "done" => position = Len(tokens)

\* Witness of C2: a finished parse of a list of at least three tokens in which
\* the last dispatch consumed more than one token.
C2_Witness ==
    /\ pc = "done"
    /\ Len(tokens) >= 3
    /\ iterations >= 2
    /\ lastAdvance >= 2

\* Statement shapes of the grammar of section 4.1, on token lists.
IsLiteralStmt(s) == Len(s) = 1 /\ s[1].token_type = "Literal"

IsAnnotationStmt(s) == Len(s) = 1 /\ s[1].token_type \in {"Metadata", "Comment"}

IsInstructionStmt(s) ==
    /\ Len(s) >= 1
    /\ s[1].token_type = "Instruction"
    /\ s[1].value \in RegistryKeys
    /\ \A i \in 2..Len(s) : s[i].token_type \in ArgKinds

IsAssignmentStmt(s) ==
    /\ Len(s) = 3
    /\ s[1].token_type = "Identifier"
    /\ s[2].value = "="
    /\ s[3].token_type \in {"Literal", "Identifier"}

WellFormedStmt(s) ==
    IsLiteralStmt(s) \/ IsAnnotationStmt(s) \/ IsInstructionStmt(s) \/ IsAssignmentStmt(s)

\* Malformed statements: a stray closing or separating token, an unknown
\* instruction keyword, a call that is opened and never closed.
MalformedStmt(s) ==
    \/ /\ Len(s) = 1
       /\ \/ s[1].token_type = "Punctuation"
          \/ s[1].token_type = "GroupMarker" /\ s[1].value \in {")", "}"}
          \/ s[1].token_type = "Instruction" /\ s[1].value \notin RegistryKeys
    \/ /\ Len(s) = 2
       /\ s[1].token_type = "Identifier"
       /\ s[2].value = "("

\* C3: fault isolation: when the token list is a well-formed statement, a
\* malformed statement and a well-formed statement, the tree has three nodes,
\* the middle one is the only Error, and the outer two are the nodes the
\* well-formed statements yield when parsed alone.
C3_FaultIsolation ==
    pc = "done" =>
        \A i \in 1..Len(tokens), j \in 1..Len(tokens) :
            LET w1 == SubSeq(tokens, 1, i)
                m  == SubSeq(tokens, i + 1, j)
                w2 == SubSeq(tokens, j + 1, Len(tokens))
            IN  (i < j /\ j < Len(tokens) /\ WellFormedStmt(w1) /\ MalformedStmt(m)
                       /\ WellFormedStmt(w2))
                => /\ Len(nodes) = 3
                   /\ nodes[1] = parse_node(w1, 0).node
                   /\ nodes[2].kind = "Error"
                   /\ nodes[3] = parse_node(w2, 0).node
                   /\ nodes[1].kind # "Error"
                   /\ nodes[3].kind # "Error"

\* C4: round-trip shape: an Instruction-kind token followed by two
\* literal/identifier/operator tokens parses to exactly one Instruction node
\* with that name and the two arguments in order, and no Error node.
C4_RoundTripShape ==
    (/\ pc = "done"
     /\ Len(tokens) = 3
     /\ tokens[1].token_type = "Instruction"
     /\ tokens[2].token_type \in ArgKinds
     /\ tokens[3].token_type \in ArgKinds)
    => nodes = << InstructionNode(tokens[1].value, <<tokens[2].value, tokens[3].value>>) >>

\* C5: no silent drop: no token is consumed by a dispatch, at top level or
\* inside a block, that returns no node for it.
C5_NoSilentDrop ==
    lost = 0

\* C6: identifier routing: a dispatch on an Identifier token appends an
\* Assignment of the token after `=` when `=` follows, the result of the call
\* parser when `(` follows, and otherwise an Error naming the identifier.
C6_IdentifierRouting ==
    [][ (/\ pc = "parsing"
         /\ HasToken(tokens, position)
         /\ Peek(tokens, position).token_type = "Identifier"
         /\ iterations' = iterations + 1)
        => LET id == Peek(tokens, position).value
               hasNext == HasToken(tokens, position + 1)
               nextIs(v) == hasNext /\ Peek(tokens, position + 1).value = v
           IN  IF nextIs("=")
               THEN /\ HasToken(tokens, position + 2)
                    /\ nodes' = Append(nodes, AssignmentNode(id, Peek(tokens, position + 2).value))
               ELSE IF nextIs("(")
               THEN /\ Len(nodes') = Len(nodes) + 1
                    /\ nodes'[Len(nodes')] = parse_call(tokens, position + 1, id).node
                    /\ nodes'[Len(nodes')].kind = "Call"
                    /\ nodes'[Len(nodes')].text = id
               ELSE nodes' = Append(nodes, ErrorNode("Ambiguous identifier usage near '" \o id \o "'"))
      ]_vars

\* C18: scenario 1: the finished parse of
\* [Instruction let, Identifier flame, Operator =, Literal "holy fire"] is the
\* single node Assignment{target: flame, value: holy fire}.
C18_Scenario1 ==
    (pc = "done" /\ tokens = SimpleAssignmentTokens)
    => nodes = << AssignmentNode("flame", "holy fire") >>

\* C19: scenario 2: the finished parse of
\* [Instruction bless, GroupMarker "(", Literal 42, GroupMarker ")"] is the
\* single node Call{function: bless, args: [42]}.
C19_Scenario2 ==
    (pc = "done" /\ tokens = GroupingAndNumberTokens)
    => nodes = << CallNode("bless", <<"42">>) >>

RECURSIVE Redispatch(_, _, _)
\* The nodes the top-level routing yields when dispatched again and again
\* from cursor pos, up to a `}` at a dispatch boundary or the end of input,
\* and the cursor where that stops.
Redispatch(toks, pos, acc) ==
    IF ~HasToken(toks, pos) \/ Peek(toks, pos) = Token("GroupMarker", "}")
    THEN [children |-> acc, pos |-> pos]
    ELSE LET r == parse_node(toks, pos)
         IN  IF r.node = NoNode THEN [children |-> acc, pos |-> r.pos]
             ELSE Redispatch(toks, r.pos, Append(acc, r.node))

\* C24: block parsing: a dispatch on `{` appends one Block whose children
\* are the nodes of the repeated top-level dispatch, in source order; when
\* that dispatch stops at a `}` the `}` is consumed, and when it stops at the
\* end of input the Block holds the children parsed so far.
C24_BlockParsing ==
    [][ (/\ pc = "parsing"
         /\ HasToken(tokens, position)
         /\ Peek(tokens, position) = Token("GroupMarker", "{")
         /\ iterations' = iterations + 1)
        => LET body == Redispatch(tokens, position + 1, <<>>)
           IN  /\ nodes' = Append(nodes, BlockNode(body.children))
               /\ position' = IF HasToken(tokens, body.pos) THEN body.pos + 1
                              ELSE Len(tokens) ]_vars

\* Witness of C24: a finished parse whose tree is one closed Block with two
\* children.
C24_Witness ==
    /\ pc = "done"
    /\ Len(nodes) = 1
    /\ nodes[1].kind = "Block"
    /\ Len(nodes[1].children) = 2
    /\ tokens[Len(tokens)] = Token("GroupMarker", "}")

RECURSIVE CountTokens(_, _, _)
\* How many tokens of the list have this kind and this text.
CountTokens(toks, kind, text) ==
    IF toks = <<>> THEN 0
    ELSE (IF Head(toks) = Token(kind, text) THEN 1 ELSE 0)
         + CountTokens(Tail(toks), kind, text)

RECURSIVE CountNodes(_, _, _)
\* How many nodes of the tree, Block children included, have this kind and
\* this text.
CountNodes(ns, kind, text) ==
    IF ns = <<>> THEN 0
    ELSE (IF Head(ns).kind = kind /\ Head(ns).text = text THEN 1 ELSE 0)
         + CountNodes(Head(ns).children, kind, text)
         + CountNodes(Tail(ns), kind, text)

\* C25: Metadata/Comment preservation: in the finished tree every Metadata
\* token and every Comment token of the input is a Metadata or Comment node
\* with the token's text, so the tree has as many such nodes as the input has
\* such tokens.
C25_AnnotationsPreserved ==
    pc = "done" =>
        \A t \in { a \in TokenAlphabet : a.token_type \in {"Metadata", "Comment"} } :
            CountNodes(nodes, t.token_type, t.value) = CountTokens(tokens, t.token_type, t.value)

\* A call statement: an Identifier, `(`, literal or identifier operand
\* tokens separated by `,`, and `)`.
IsCallStmt(s) ==
    /\ Len(s) >= 3
    /\ s[1].token_type = "Identifier"
    /\ s[2].value = "("
    /\ s[Len(s)].value = ")"
    /\ LET m == SubSeq(s, 3, Len(s) - 1)
       IN  \/ m = <<>>
           \/ /\ Len(m) % 2 = 1
              /\ \A i \in 1..Len(m) :
                    IF i % 2 = 1 THEN m[i].token_type \in {"Literal", "Identifier"}
                    ELSE m[i].value = ","

\* The operand texts of a call statement, in source order.
CallOperands(s) ==
    [i \in 1..((Len(s) - 2) \div 2) |-> s[2 * i + 1].value]

\* C26: call parsing: the finished parse of a call statement is exactly one
\* Call node whose function is the identifier and whose args are the operand
\* tokens in source order, without the commas and the parentheses.
C26_CallParsing ==
    (pc = "done" /\ IsCallStmt(tokens))
    => nodes = << CallNode(tokens[1].value, CallOperands(tokens)) >>

\* Witness of C26: the finished parse of the token list of test_function_call.
C26_Witness ==
    /\ pc = "done"
    /\ tokens = FunctionCallTokens("invoke")
    /\ nodes = << CallNode("invoke", << "\"grace\"", "\"mercy\"" >>) >>

\* How many tokens of the kinds Literal, Identifier, Operator follow one
\* another from cursor p.
ArgRun(p) ==
    LET ends == { q \in p..Len(tokens) :
                    ~HasToken(tokens, q) \/ Peek(tokens, q).token_type \notin ArgKinds }
    IN  (CHOOSE q \in ends : \A r \in ends : q <= r) - p

RECURSIVE InstructionNames(_)
\* The names of the Instruction nodes of a tree, Block children included.
InstructionNames(ns) ==
    IF ns = <<>> THEN {}
    ELSE (IF Head(ns).kind = "Instruction" THEN { Head(ns).text } ELSE {})
         \cup InstructionNames(Head(ns).children)
         \cup InstructionNames(Tail(ns))

ArgumentListOpened ==
    /\ out.op = "parse_argument_list"
    /\ HasToken(tokens, out.from)
    /\ Peek(tokens, out.from).value = "("

\* The 1-based places of the `)` tokens after that `(`.
Closings == { j \in (out.from + 2)..Len(tokens) : tokens[j].value = ")" }

\* C27: structural parse fault: when parse_argument_list has taken `(` and
\* the stream ends with no closing `)`, it returns a ParseError and not a
\* successful argument list.
C27_StructuralFault ==
    (ArgumentListOpened /\ Closings = {}) => ~out.ok

\* C28: argument-list walker: after `(`, with a closing `)` in the stream,
\* parse_argument_list returns Ok with the texts of the tokens before the
\* first `)` that are not commas, verbatim and in order, and leaves the cursor
\* after that `)`; commas, leading and trailing ones included, add nothing.
C28_ArgumentList ==
    (ArgumentListOpened /\ Closings # {})
    => LET close == CHOOSE j \in Closings : \A k \in Closings : j <= k
           between == SelectSeq(SubSeq(tokens, out.from + 2, close - 1),
                                LAMBDA t : t.value # ",")
       IN  /\ out.ok
           /\ out.args = [i \in 1..Len(between) |-> between[i].value]
           /\ position = close

\* Witness of C28: an argument list with a leading comma returned one
\* argument and stopped after the `)`.
C28_Witness ==
    /\ ArgumentListOpened
    /\ out.ok
    /\ HasToken(tokens, out.from + 1)
    /\ Peek(tokens, out.from + 1).value = ","
    /\ out.args = << "truth" >>
    /\ position = out.from + 4
    /\ tokens[position].value = ")"

RECURSIVE SpaceJoined(_)
\* The texts of a non-empty token list joined by single spaces.
SpaceJoined(s) ==
    IF Len(s) = 1 THEN s[1].value
    ELSE s[1].value \o " " \o SpaceJoined(Tail(s))

\* C29: condition walker: walk_condition takes the tokens from its cursor up
\* to the first `{` or `;` (or the end of the stream), leaves the cursor on
\* that boundary, returns None exactly when it took no token, and otherwise
\* returns the taken texts joined by single spaces.
C29_ConditionWalker ==
    out.op = "walk_condition"
    => LET stops == { p \in out.from..Len(tokens) :
                        ~HasToken(tokens, p) \/ Peek(tokens, p).value \in {"{", ";"} }
           stop == CHOOSE p \in stops : \A q \in stops : p <= q
           taken == SubSeq(tokens, out.from + 1, stop)
       IN  /\ position = stop
           /\ out.some <=> taken # <<>>
           /\ out.some => out.value = SpaceJoined(taken)

\* C30: declaration with optional type: parse_declaration on a keyword and a
\* name returns a Declaration of that name; its type is Some(Type) when `:`
\* and an Identifier token Type follow the name, and None, with no error,
\* when no colon follows the name.
C30_Declaration ==
    (out.op = "parse_declaration" /\ HasToken(tokens, out.from + 1))
    => LET name == Peek(tokens, out.from + 1).value
           colon == HasToken(tokens, out.from + 2) /\ Peek(tokens, out.from + 2).value = ":"
           typed == /\ colon
                    /\ HasToken(tokens, out.from + 3)
                    /\ Peek(tokens, out.from + 3).token_type = "Identifier"
       IN  /\ out.some
           /\ out.node.kind = "Declaration"
           /\ out.node.text = name
           /\ typed => out.node.args = << Peek(tokens, out.from + 3).value >>
           /\ ~colon => out.node.args = <<>>

\* Witness of C30: `let truth : String` was parsed to
\* Declaration{truth, Some(String)}.
C30_Witness ==
    /\ out.op = "parse_declaration"
    /\ HasToken(tokens, out.from + 3)
    /\ SubSeq(tokens, out.from + 1, out.from + 4)
         = << Token("Instruction", "let"), Token("Identifier", "truth"),
              Token("Operator", ":"), Token("Identifier", "String") >>
    /\ out.node = DeclarationNode("truth", << "String" >>)
    /\ position = out.from + 4

\* A declaration with no colon after the name was parsed to
\* Declaration{truth, None}.
C30_UntypedReached ==
    /\ out.op = "parse_declaration"
    /\ out.node = DeclarationNode("truth", <<>>)
    /\ HasToken(tokens, out.from + 2)
    /\ Peek(tokens, out.from + 2).value # ":"

\* C31: token immutability: no parser operation changes the token list, so
\* after any sequence of operations it is the list given at construction,
\* with the same length, order and contents; only the cursor moves.
C31_TokensImmutable ==
    [][tokens' = tokens]_vars

\* Witness of C31: two sub-parser calls have consumed a list of at least
\* three tokens to its end.
C31_Witness ==
    /\ pc = "walking"
    /\ calls >= 2
    /\ Len(tokens) >= 3
    /\ position = Len(tokens)
    /\ out.from > 0

\* The cursor of the first `{` or `;`, or of the end of the stream, at or
\* after cursor p.
FirstBoundary(p) ==
    LET stops == { q \in p..Len(tokens) :
                     ~HasToken(tokens, q) \/ Peek(tokens, q).value \in {"{", ";"} }
    IN  CHOOSE q \in stops : \A r \in stops : q <= r

\* From the cursor of the last call: a keyword, one or more condition tokens,
\* `{`, and a `}` somewhere after it.
LoopShaped ==
    /\ HasToken(tokens, out.from + 1)
    /\ LET open == FirstBoundary(out.from + 1)
       IN  /\ open > out.from + 1
           /\ HasToken(tokens, open)
           /\ Peek(tokens, open).value = "{"
           /\ \E j \in (open + 2)..Len(tokens) : tokens[j].value = "}"

\* C33: loop parsing: parse_loop on a keyword, condition tokens and a
\* `{ ... }` block returns a Loop whose condition is the condition tokens
\* joined by single spaces and whose body is not empty, with the cursor just
\* after a `}`.
C33_LoopParsing ==
    (out.op = "parse_loop" /\ LoopShaped)
    => LET open == FirstBoundary(out.from + 1)
       IN  /\ out.node.kind = "Loop"
           /\ out.node.text = SpaceJoined(SubSeq(tokens, out.from + 2, open))
           /\ out.node.children # <<>>
           /\ position > open
           /\ tokens[position].value = "}"

\* The loop of test_parse_loop was parsed to Loop{"x < 10", [Block]} with the
\* cursor after the closing `}`.
C33_TestReached ==
    /\ out.op = "parse_loop"
    /\ tokens = LoopTokens
    /\ out.from = 0
    /\ out.node.kind = "Loop"
    /\ out.node.text = "x < 10"
    /\ Len(out.node.children) = 1
    /\ position = Len(tokens)

\* C38: no panic: when parse_conditional or parse_loop, in either parser, has
\* read a condition that is followed by the end of the stream or by a token
\* that does not open a block, the call returns None or an Error node and
\* does not panic.
C38_NoPanic ==
    (/\ out.op \in {"parse_conditional", "parse_loop",
                    "gate_parse_conditional", "gate_parse_loop"}
     /\ HasToken(tokens, out.from + 1)
     /\ LET stop == FirstBoundary(out.from + 1)
        IN  /\ stop > out.from + 1
            /\ ~(HasToken(tokens, stop) /\ Peek(tokens, stop).value = "{"))
    => /\ pc # "panicked"
       /\ out.node = NoNode \/ out.node.kind = "Error"

\* The Tablet copies alone never end in a panic.
C38_TabletNeverPanics ==
    out.op \in {"parse_conditional", "parse_loop"} => pc # "panicked"

(***************************************************************************)
(* Resolver properties                                                     *)
(***************************************************************************)
\* The tier an operand variant stands for (Literal -> Certain, Binding ->
\* Trusted, a failed classification -> Shadowed, anything else -> Ambiguous).
TierOfOperand(operand) ==
    CASE operand.variant = "Literal" -> "Certain"
      [] operand.variant = "Binding" -> "Trusted"
      [] operand.variant = "InvalidOperand" -> "Shadowed"
      [] OTHER -> "Ambiguous"

\* The minimum of a non-empty set of tiers under
\* Invalid < Shadowed < Ambiguous < Trusted < Certain.
WeakestTier(tiers) ==
    CHOOSE t \in tiers : \A u \in tiers : ScoredRank(t) <= ScoredRank(u)

OperandTiers(i) ==
    { TierOfOperand(i.resolved_operands[k]) : k \in 1..Len(i.resolved_operands) }

FullPassDone == lastOp = "resolve_operands" /\ PassesStage1(instruction)

\* C7: weakest link: after the trust cascade of a resolution pass the trust
\* summary is the minimum tier among the instruction's operands, and it is
\* Shadowed when the bound operands hold a Shadowed and a Certain tier.
C7_WeakestLink ==
    FullPassDone =>
        /\ instruction.trust_summary = WeakestTier(OperandTiers(instruction))
        /\ ({"Shadowed", "Certain"} \subseteq Range(instruction.trust_flags)
                => instruction.trust_summary = "Shadowed")

\* C8: readiness update: after a pass that gets past stage 1 the status is
\* ReadyToAssemble exactly when the operand built in that pass is not an
\* InvalidOperand, and RequiresResolution otherwise.
C8_ReadinessUpdate ==
    FullPassDone =>
        LET built == instruction.resolved_operands[Len(instruction.resolved_operands)]
        IN  /\ instruction.status = "ReadyToAssemble" <=> built.variant # "InvalidOperand"
            /\ built.variant = "InvalidOperand" => instruction.status = "RequiresResolution"

\* Witness of C8: a pass that got past stage 1, built an InvalidOperand and
\* ended in RequiresResolution.
C8_Witness ==
    /\ FullPassDone
    /\ instruction.status = "RequiresResolution"
    /\ instruction.resolved_operands[Len(instruction.resolved_operands)].variant = "InvalidOperand"
    /\ ~HasVariant(instruction.resolved_operands, {"Binding"})

\* C9: ReadyToAssemble and Invalid are terminal: no resolver operation changes
\* a status that is ReadyToAssemble or Invalid.
C9_TerminalStatus ==
    [][ instruction.status \in {"ReadyToAssemble", "Invalid"}
            => instruction'.status = instruction.status ]_vars

\* C10: idempotence: a second resolution pass right after a first one, with no
\* rewalk pending, leaves the operand list and the trust summary as the first
\* pass left them.
C10_Idempotence ==
    [][ (/\ lastOp = "resolve_operands"
         /\ lastOp' = "resolve_operands"
         /\ ops' = ops + 1
         /\ ~instruction.rewalk_flag)
        => /\ instruction'.resolved_operands = instruction.resolved_operands
           /\ instruction'.trust_summary = instruction.trust_summary ]_vars

\* C11: stage 1: a resolution pass on a record whose trimmed subject, verb or
\* object is empty sets the status to Invalid and records no operand: the
\* resolved-operand list, the bindings and the trust flags stay as they were.
C11_Stage1Halt ==
    [][ (/\ lastOp' = "resolve_operands"
         /\ ops' = ops + 1
         /\ ~PassesStage1(instruction))
        => /\ instruction'.status = "Invalid"
           /\ instruction'.resolved_operands = instruction.resolved_operands
           /\ instruction'.operand_bindings = instruction.operand_bindings
           /\ instruction'.trust_flags = instruction.trust_flags ]_vars

\* Witness of C11: a pass halted at stage 1 on a record that already held a
\* binding and a trust flag, with no operand recorded.
C11_Witness ==
    /\ lastOp = "resolve_operands"
    /\ ~PassesStage1(instruction)
    /\ instruction.status = "Invalid"
    /\ instruction.operand_bindings # EmptyMap
    /\ instruction.trust_flags # EmptyMap
    /\ instruction.resolved_operands = <<>>

C15_PlaceholderScenario ==
    [][ (/\ ops' = ops + 1
         /\ \/ /\ lastOp' = "resolve_operands"
               /\ PassesStage1(instruction)
               /\ Trim(instruction.object) = "_"
            \/ /\ lastOp' = "handle_meta_operand"
               /\ instruction' = handle_meta_operand(instruction, PlaceholderOperand("_")))
        => /\ instruction'.rewalk_flag
           /\ instruction'.retry_count = instruction.retry_count + 1
           /\ instruction'.status \in {"RequiresResolution", "RequiresRewalk"}
           /\ "meta_operand_type" \in DOMAIN instruction'.metadata_tags
           /\ instruction'.metadata_tags["meta_operand_type"] = "Placeholder" ]_vars

\* C16: rewalk check: after a resolution pass that got past stage 1, a
\* Placeholder or InvalidOperand among the resolved operands, the one built in
\* that pass included, means the rewalk flag is set, and an InvalidOperand
\* means the instruction is also deferred to the diagnostic sink.
C16_RewalkCheck ==
    FullPassDone =>
        /\ HasVariant(instruction.resolved_operands, {"Placeholder", "InvalidOperand"})
                => instruction.rewalk_flag
        /\ HasVariant(instruction.resolved_operands, {"InvalidOperand"})
                => instruction.defer_to_watchtower

\* C17: literal-shape scenario: the first pass over verb `let` and the
\* quoted-literal object "truth" records the operand Literal{value: "truth"},
\* ends with trust Certain and status ReadyToAssemble.
C17_LiteralShape ==
    (/\ FullPassDone
     /\ ops = 1
     /\ instruction.verb = "let"
     /\ instruction.object = "\"truth\"")
    => /\ instruction.resolved_operands = << LiteralOperand("truth") >>
       /\ instruction.trust_summary = "Certain"
       /\ instruction.status = "ReadyToAssemble"

\* The resolver operations with their arguments, as calls.
ResolverCalls ==
    { <<"resolve_operands">>, <<"check_for_rewalk">>, <<"finalize_operands">>,
      <<"tag_operand_metadata">> }
    \cup { <<"refine_operand", o, t>> : o \in RefineOperands, t \in RefineTypes }
    \cup { <<"handle_meta_operand", o>> : o \in MetaOperands }

\* The record a call leaves when run on record i.
RunCall(order, i, call) ==
    CASE call[1] = "resolve_operands" -> resolve_operands(order, i)
      [] call[1] = "check_for_rewalk" -> check_for_rewalk(i)
      [] call[1] = "finalize_operands" -> finalize_operands(i)
      [] call[1] = "tag_operand_metadata" ->
            IF i.status = "Unresolved" THEN i ELSE tag_operand_metadata(i)
      [] call[1] = "refine_operand" -> refine_operand(i, call[2], call[3])
      [] call[1] = "handle_meta_operand" -> handle_meta_operand(i, call[2])

WithHook(i, hook) == [i EXCEPT !.watchtower_hook = hook]

\* C21: sink independence: on every record the resolver reaches, each
\* operation leaves the same record (status, operands, trust flags, rewalk
\* flag, retry counter and all other fields) whether the watchtower hook is
\* installed or absent.
C21_SinkIndependence ==
    \A call \in ResolverCalls :
        WithHook(RunCall(tier_order, WithHook(instruction, TRUE), call), FALSE)
            = RunCall(tier_order, WithHook(instruction, FALSE), call)

\* Witness of C21: an operation that reports to the sink has run on a record
\* with the hook installed, and the hook received entries.
C21_Witness ==
    /\ lastOp \in {"resolve_operands", "finalize_operands"}
    /\ instruction.watchtower_hook
    /\ sink # <<>>
    /\ ops >= 2
    /\ instruction.resolved_operands # <<>>

\* Metadata tag maps a record could carry instead of its own.
OtherTagMaps ==
    { EmptyMap,
      Put(EmptyMap, "meta_operand_type", "Placeholder"),
      Put(Put(EmptyMap, "resolution_state", "Final"), "trust_tier", "Trust tier: Shadowed") }

WithoutTags(i) == [i EXCEPT !.metadata_tags = EmptyMap]

\* C22: metadata tags are observational: on every record the resolver
\* reaches, each operation leaves the same status, operands, trust state,
\* rewalk flag, retry counter and other fields when the record's metadata tag
\* map is replaced by another one.
C22_TagsObservational ==
    \A call \in ResolverCalls, tags \in OtherTagMaps :
        WithoutTags(RunCall(tier_order, [instruction EXCEPT !.metadata_tags = tags], call))
            = WithoutTags(RunCall(tier_order, instruction, call))

\* Witness of C22: an operation that sets the status has run on a record
\* that the tagging stage had tagged with the trust tier, the operand role
\* and the resolution state.
C22_Witness ==
    /\ lastOp \in {"resolve_operands", "finalize_operands", "check_for_rewalk"}
    /\ {"trust_tier", "operand_role", "resolution_state"} \subseteq DOMAIN instruction.metadata_tags
    /\ instruction.metadata_tags["resolution_state"] # ResolutionState(instruction.status)

\* C23: retry counter: every resolver operation leaves the retry counter as
\* it was or one higher, never lower and never reset, and what an operation
\* adds to it does not depend on the value it has reached, so no bound on it
\* comes from the resolver.
C23_RetryMonotone ==
    [][ /\ instruction'.retry_count \in {instruction.retry_count, instruction.retry_count + 1}
        /\ \A call \in ResolverCalls, reached \in {0, 5, 100} :
              RunCall(tier_order, [instruction EXCEPT !.retry_count = reached], call).retry_count
                    - reached
                = RunCall(tier_order, instruction, call).retry_count
                    - instruction.retry_count ]_vars

\* Witness of C23: the retry counter has been raised twice.
C23_Witness ==
    /\ instruction.retry_count >= 2
    /\ lastOp \in {"check_for_rewalk", "resolve_operands"}
    /\ instruction.rewalk_flag

\* The role of a verb by the fixed taxonomy, letter case aside.
TaxonomyRole(verb) ==
    LET v == ToLowercase(verb)
    IN  IF v = "let" \/ v = "set" \/ v = "define" THEN "Assignment"
        ELSE IF v = "return" \/ v = "yield" THEN "Control"
        ELSE IF v = "push" \/ v = "append" THEN "Mutation"
        ELSE "None"

\* C35: pattern classification: in a resolution pass that gets past stage 1
\* the verb's role is the one of the fixed taxonomy, the provisional operand
\* type is Symbol exactly when the role is Assignment and Unknown otherwise,
\* and the operand the pass builds follows that type.
C35_PatternClassification ==
    [][ (/\ ops' = ops + 1
         /\ lastOp' = "resolve_operands"
         /\ PassesStage1(instruction))
        => LET verb == Trim(instruction.verb)
               role == TaxonomyRole(verb)
               operand_type == classify_pattern(Trim(instruction.subject), verb,
                                                Trim(instruction.object))
               built == instruction'.resolved_operands[Len(instruction'.resolved_operands)]
           IN  /\ match_verb_taxonomy(verb) = role
               /\ operand_type = (IF role = "Assignment" THEN "Symbol" ELSE "Unknown")
               /\ built.variant = (IF role = "Assignment" THEN "Binding" ELSE "InvalidOperand")
               /\ Len(instruction'.resolved_operands) = Len(instruction.resolved_operands) + 1
      ]_vars

\* Witness of C35: a pass over a Control verb left an InvalidOperand and the
\* status RequiresResolution.
C35_Witness ==
    /\ FullPassDone
    /\ TaxonomyRole(Trim(instruction.verb)) = "Control"
    /\ instruction.resolved_operands[Len(instruction.resolved_operands)].variant = "InvalidOperand"
    /\ instruction.status = "RequiresResolution"

\* C36: trust cascade mapping: after a first resolution pass that gets past
\* stage 1 the trust summary is the tier of the operand the pass built,
\* whatever its variant: Certain for a Literal, Trusted for a Binding,
\* Shadowed for an operand whose classification failed.
C36_CascadeMapping ==
    (FullPassDone /\ Len(instruction.resolved_operands) = 1)
    => instruction.trust_summary = TierOfOperand(instruction.resolved_operands[1])

\* The Binding half of C36 under the ordering of the scored scale.
C36_BindingTrusted ==
    (/\ FullPassDone
     /\ tier_order = "scored"
     /\ ops = 1
     /\ instruction.resolved_operands[1].variant = "Binding")
    => instruction.trust_summary = "Trusted"

\* validate_operands: no operand of the list is an InvalidOperand or a
\* Placeholder.
validate_operands(i) ==
    ~HasVariant(i.resolved_operands, {"InvalidOperand", "Placeholder"})

\* C37: whenever the instruction's status is ReadyToAssemble after a resolver
\* operation has returned, its resolved-operand list holds no InvalidOperand
\* and no Placeholder.
C37_ReadyIsValid ==
    (ops > 0 /\ instruction.status = "ReadyToAssemble") => validate_operands(instruction)

\* Witness of C37: finalize_operands returned ReadyToAssemble on a record
\* that holds operands.
C37_Witness ==
    /\ lastOp = "finalize_operands"
    /\ instruction.status = "ReadyToAssemble"
    /\ Len(instruction.resolved_operands) > 0
    /\ validate_operands(instruction)

\* C37 on the records of the scroll-level resolver.
C37_ReadyRecordsValid ==
    \A k \in 1..Len(records) :
        records[k].status = "ReadyToAssemble" => validate_operands(records[k])

(***************************************************************************)
(* Scroll properties                                                       *)
(***************************************************************************)
\* Record k is the one the step just taken worked on, with operation `name`.
Worked(k, name) ==
    /\ history'[k] # history[k]
    /\ lastOp' = name

\* The Bearer holds a tree and a schema whose operand counts differ.
ArityMismatch(b) ==
    /\ b.scroll_tree.present
    /\ b.instruction_schema.present
    /\ Len(b.scroll_tree.root.children) # b.instruction_schema.arity

\* C12: resolution faults: a pass on a record with an empty required field,
\* a schema load for a name the registry lacks, and a walk whose operand
\* count differs from the schema's arity each leave the instruction Invalid,
\* and none of them changes the record of the sibling instruction.
C12_FaultsInvalidate ==
    [][ \A k \in Recs :
          (\/ Worked(k, "resolve_operands") /\ ~PassesStage1(records[k])
           \/ Worked(k, "load_instruction_schema") /\ ~get_schema(records[k].name).present
           \/ Worked(k, "begin_resolution") /\ ArityMismatch(bearer')
           \/ Worked(k, "walk_scroll_tree") /\ ArityMismatch(bearer'))
          => /\ records'[k].status = "Invalid"
             /\ \A j \in Recs \ {k} : records'[j] = records[j] ]_vars

\* C13: arity check: a walk of a tree whose operand count differs from the
\* loaded schema's arity adds one broken-severity entry to the Bearer's trace
\* and nothing else: no operand is added, the Bearer's trust flags and every
\* record (its trust flags, trust summary and operands) stay as they were.
C13_ArityAbort ==
    [][ (/\ lastOp' \in {"begin_resolution", "walk_scroll_tree"}
         /\ ops' = ops + 1
         /\ ArityMismatch(bearer'))
        => /\ bearer'.debug_trace =
                Append(bearer.debug_trace, DebugEntry("Broken", "Arity mismatch"))
           /\ bearer'.operands = bearer.operands
           /\ bearer'.trust_flags = bearer.trust_flags
           /\ bearer'.operand_bindings = bearer.operand_bindings
           /\ records' = records ]_vars

\* Witness of C13: a walk aborted on an arity mismatch by a Bearer that
\* already held the operands of an earlier walk.
C13_Witness ==
    /\ lastOp \in {"begin_resolution", "walk_scroll_tree"}
    /\ ArityMismatch(bearer)
    /\ bearer.operands # <<>>
    /\ bearer.debug_trace[Len(bearer.debug_trace)] = DebugEntry("Broken", "Arity mismatch")

\* What one operation of the history does to the record it is run on, run
\* alone: the two record operations change it, the Bearer operations do not.
AloneOp(order, i, name) ==
    CASE name = "resolve_operands" -> resolve_operands(order, i)
      [] name = "check_for_rewalk" -> check_for_rewalk(i)
      [] OTHER -> i

RECURSIVE Alone(_, _, _, _)
\* The record reached from i by the operations h[n..] with no sibling around.
Alone(order, i, h, n) ==
    IF n > Len(h) THEN i
    ELSE Alone(order, AloneOp(order, i, h[n]), h, n + 1)

\* C20: instruction independence: however the operations on the two
\* instructions are interleaved, each record is what its own operations, run
\* in their order on that record alone, make of it.
C20_Independence ==
    \A k \in Recs :
        records[k] =
            Alone(tier_order,
                  NamedInstruction(records[k].name, records[k].subject,
                                   records[k].verb, records[k].object),
                  history[k], 1)

\* Witness of C20: both instructions went through a resolution pass, the
\* first through two operations, and their operand lists differ.
C20_Witness ==
    /\ Len(history[1]) >= 2
    /\ Len(history[2]) >= 1
    /\ \E n \in 1..Len(history[1]) : history[1][n] = "resolve_operands"
    /\ \E n \in 1..Len(history[2]) : history[2][n] = "resolve_operands"
    /\ records[1].resolved_operands # <<>>
    /\ records[2].resolved_operands # <<>>
    /\ records[1].resolved_operands # records[2].resolved_operands

\* The operands the Bearer constructed in the step: those its walk pushed.
Constructed == SubSeq(bearer'.operands, Len(bearer.operands) + 1, Len(bearer'.operands))

\* C32: Invalid and Placeholder operands are never dropped: when a resolution
\* pass or a scroll-tree walk for an instruction constructs an InvalidOperand
\* or a Placeholder, the operand is in that instruction's resolved-operand
\* list when the operation returns.
C32_NeverDropped ==
    [][ \A k \in Recs :
          /\ (/\ lastOp' = "resolve_operands"
              /\ history'[k] # history[k]
              /\ PassesStage1(records[k])
              /\ classify_pattern(Trim(records[k].subject), Trim(records[k].verb),
                                  Trim(records[k].object)) = "Unknown")
             => InvalidOperand(Trim(records[k].object)) \in Range(records'[k].resolved_operands)
          /\ (/\ lastOp' \in {"begin_resolution", "walk_scroll_tree"}
              /\ history'[k] # history[k])
             => \A n \in 1..Len(Constructed) :
                   Constructed[n].variant \in {"InvalidOperand", "Placeholder"}
                   => Constructed[n] \in Range(records'[k].resolved_operands)
                                         \cup Range(bearer'.resolved_operands) ]_vars

\* The resolve_operands half of C32 alone.
C32_ResolveKeepsInvalid ==
    [][ \A k \in Recs :
          (/\ lastOp' = "resolve_operands"
           /\ history'[k] # history[k]
           /\ PassesStage1(records[k])
           /\ classify_pattern(Trim(records[k].subject), Trim(records[k].verb),
                               Trim(records[k].object)) = "Unknown")
          => InvalidOperand(Trim(records[k].object)) \in Range(records'[k].resolved_operands)
      ]_vars

(***************************************************************************)
(* Tokenizer properties                                                    *)
(***************************************************************************)
\* C40: tokenize terminates on every finite input: each iteration of its main
\* loop consumes at least one character, characters that are numeric but not
\* ASCII digits included.
C40_IterationConsumes ==
    [][ loops' = loops + 1 => tokenizer'.position > tokenizer.position ]_vars

\* An iteration on a numeric character outside 0-9 was run.
C40_NumericReached ==
    /\ loops > 0
    /\ HasChar(tokenizer.source, tokenizer.position)
    /\ PeekChar(tokenizer.source, tokenizer.position) \in {"U+00B2", "U+0663"}
    /\ stream # <<>>
    /\ stream[Len(stream)] = Token("Literal", "")

\* On a source without such a character every iteration consumes, and the
\* loop is over after at most one iteration per character.
C40_AsciiTerminates ==
    (crate # "none"
     /\ \A k \in 1..Len(tokenizer.source) :
            is_numeric(tokenizer.source[k]) => is_ascii_digit(tokenizer.source[k]))
    => loops <= tokenizer.position

====
